---- MODULE Spec2Model ----
(***************************************************************************)
(* Practice-session sandbox engine of AIDE: the session router             *)
(* (app/routers/practice.py), the free-query router (app/routers/sql.py),  *)
(* the query executor (app/services/sql_executor.py) and the schema        *)
(* cleanup script (cleanup.py).                                            *)
(*                                                                         *)
(* Handlers are asyncio coroutines: the code between two awaits is one     *)
(* atomic step, so every handler is a sequence of actions over a task      *)
(* record that holds its locals and its position.                          *)
(***************************************************************************)
EXTENDS Integers, Sequences, FiniteSets, TLC

(***************************************************************************)
(* Program constants                                                       *)
(***************************************************************************)
rate_limit_per_minute == 3
max_query_rows == 1000
max_retries == 2
Window == 60
SuffixLen == 8
max_age_hours == 2

(***************************************************************************)
(* Bounds of the model                                                     *)
(***************************************************************************)
TimeStep == 20
MaxTime == 100
MaxKeys == 2
MaxTasks == 1
MaxSessions == 1
MaxBurst == 4
MaxRows == 3

MaxHints == 3
MaxLimit == 2
MaxClock == 4
HintSessions == 2

Times == 0..MaxTime
LimiterKeys == 1..MaxKeys
Slots == 1..MaxTasks
SessionIds == 1..MaxSessions

(***************************************************************************)
(* Schema names are strings, modelled as sequences of characters.          *)
(***************************************************************************)
HexChars == {"0", "1", "2", "3", "4", "5", "6", "7", "8", "9",
             "a", "b", "c", "d", "e", "f"}

SchemaPrefix == <<"p", "r", "a", "c", "t", "i", "c", "e", "_">>

\* validate_schema_name: the reserved prefix followed by exactly SuffixLen
\* lowercase hex characters, and nothing else.
validate_schema_name(name) ==
    /\ Len(name) = Len(SchemaPrefix) + SuffixLen
    /\ SubSeq(name, 1, Len(SchemaPrefix)) = SchemaPrefix
    /\ \A i \in (Len(SchemaPrefix) + 1)..Len(name) : name[i] \in HexChars

\* generate_schema_name: "practice_" + uuid4().hex[:8].  Two of the 16^8
\* suffixes stand for all of them.
GeneratedNames ==
    { SchemaPrefix \o <<"0", "0", "0", "0", "0", "0", "0", "a">>,
      SchemaPrefix \o <<"0", "0", "0", "0", "0", "0", "0", "b">> }

\* Names a client can send that are not names of the generator: a statement
\* separator inside the name, and a name that merely starts like a practice
\* schema.
InjectionName == <<"p", "u", "b", "l", "i", "c", ";", " ", "x">>
LookalikeName == SchemaPrefix \o <<"x">>
RequestNames == GeneratedNames \cup {InjectionName}

\* WHERE schema_name LIKE 'practice_%': "_" matches any one character.
LikePractice(name) ==
    /\ Len(name) >= 9
    /\ SubSeq(name, 1, 8) = SubSeq(SchemaPrefix, 1, 8)

VARIABLES
    now,              \* time.time()
    rate_limits,      \* _rate_limits: limiter key -> list of timestamps
    last_admit,       \* the last _check_rate_limit call: key, time, result
    recent_admits,    \* history: per key, the admitted timestamps that
                      \* lie in the 60 s window that ends now
    caller_admits,    \* history: the timestamps in that window at which a
                      \* start_session request was admitted; all requests
                      \* here come from one caller
    active_sessions,  \* _active_sessions: session id -> session
    minted,           \* number of uuid4() session ids handed out
    db,               \* the database: existing schema name -> its contents
    pool,             \* _pool: "none" or "open"
    in_use,           \* connections acquired from the pool and not released
    tasks,            \* in-flight requests: locals and position
    last_sql,         \* the statement that interpolates a schema name, if
                      \* the step just taken issued one
    reply,            \* the request that ended in the step just taken, with
                      \* its response
    gc,               \* the cleanup script: position, schemas still to visit
    verify,           \* two execution results and the verdict on them
    meta,             \* public.aide_practice_meta and the script that sweeps
                      \* by it: rows, position, schemas still to drop
    run,              \* one execute_query call on one connection: its
                      \* inputs, position, result, and the connection
    seen              \* history: what the backing model and the database
                      \* answered to the call that ended last, and how
                      \* often get_hint was called for each session

limiter_vars == <<rate_limits, last_admit, recent_admits>>
store_vars == <<active_sessions, minted>>
pool_vars == <<pool, in_use>>
server_vars == <<active_sessions, minted, db, pool, in_use, tasks, last_sql,
                 reply, gc>>

harness == <<verify, meta, run, seen>>

vars == <<now, rate_limits, last_admit, recent_admits, caller_admits,
          active_sessions, minted, db, pool, in_use, tasks,
          last_sql, reply, gc, harness>>

(***************************************************************************)
(* Rate limiter: _check_rate_limit                                         *)
(***************************************************************************)
\* _rate_limits is a defaultdict(list): reading a missing key yields [].
WindowOf(limits, key) == IF key \in DOMAIN limits THEN limits[key] ELSE <<>>

\* The filter keeps a stamp that is exactly one window old.
CleanOldEntriesKeepBoundary(stamps, t) ==
    LET window_start == t - Window
    IN  SelectSeq(stamps, LAMBDA s : s >= window_start)

\* [t for t in _rate_limits[session_id] if t > window_start]
CleanOldEntries(stamps, t) ==
    LET window_start == t - Window
    IN  SelectSeq(stamps, LAMBDA s : s > window_start)

\* The capacity check lets one call too many through.
RateLimitAdmitsOneMore(limits, key, t) ==
    Len(CleanOldEntries(WindowOf(limits, key), t)) <= rate_limit_per_minute

\* The value returned by _check_rate_limit(key) called at time t.
RateLimitAdmits(limits, key, t) ==
    Len(CleanOldEntries(WindowOf(limits, key), t)) < rate_limit_per_minute

\* The list is written back from a stale read: what other calls appended
\* in between is lost.
RateLimitsAfterStaleRead(limits, key, t) ==
    IF ~RateLimitAdmits(limits, key, t)
    THEN (key :> CleanOldEntries(WindowOf(limits, key), t)) @@ limits
    ELSE (key :> <<t>>) @@ limits

\* _rate_limits after _check_rate_limit(key) called at time t.
RateLimitsAfter(limits, key, t) ==
    LET kept == CleanOldEntries(WindowOf(limits, key), t)
    IN  IF ~RateLimitAdmits(limits, key, t)
        THEN (key :> kept) @@ limits
        ELSE (key :> Append(kept, t)) @@ limits

\* A timestamp s lies in the trailing window that ends at time t.
InWindow(s, t) == s > t - Window /\ s <= t

HistoryOf(hist, key) == IF key \in DOMAIN hist THEN hist[key] ELSE <<>>

NoteAdmitted(hist, key, t) == (key :> Append(HistoryOf(hist, key), t)) @@ hist

ForgetOld(hist, t) ==
    [k \in DOMAIN hist |-> SelectSeq(hist[k], LAMBDA s : InWindow(s, t))]

NoCall == [key |-> 0, at |-> 0, ok |-> FALSE, dropped |-> 0]

InitLimiter ==
    /\ now = 0
    /\ rate_limits = <<>>
    /\ last_admit = NoCall
    /\ recent_admits = <<>>
    /\ caller_admits = <<>>

\* time.time() moves forward between two calls.
Tick ==
    /\ now + TimeStep <= MaxTime
    /\ now' = now + TimeStep
    /\ recent_admits' = ForgetOld(recent_admits, now')
    /\ caller_admits' = SelectSeq(caller_admits, LAMBDA s : InWindow(s, now'))
    /\ UNCHANGED <<rate_limits, last_admit, server_vars, harness>>

\* One call of _check_rate_limit(key).
CheckRateLimit(key) ==
    /\ rate_limits' = RateLimitsAfter(rate_limits, key, now)
    /\ last_admit' = [key |-> key, at |-> now,
                      ok |-> RateLimitAdmits(rate_limits, key, now),
                      dropped |->
                          Len(WindowOf(rate_limits, key))
                          - Len(CleanOldEntries(WindowOf(rate_limits, key), now))]
    /\ recent_admits' = IF RateLimitAdmits(rate_limits, key, now)
                        THEN NoteAdmitted(recent_admits, key, now)
                        ELSE recent_admits

\* A caller that holds a stable key asks for admission.
Admit(key) ==
    /\ CheckRateLimit(key)
    /\ UNCHANGED <<now, caller_admits, server_vars, harness>>

(***************************************************************************)
(* Values, results and questions                                           *)
(***************************************************************************)
\* A database value as Python sees it: its type and the text str() gives.
IntV(text) == [type |-> "int", text |-> text]
StrV(text) == [type |-> "str", text |-> text]
NoneV == [type |-> "NoneType", text |-> "None"]

\* str(v)
PyStr(v) == v.text

\* Column names compared as they are.
LowerNot(c) == c

\* c.lower() on the letters column names are made of here.
Lower(c) ==
    CASE c = "X" -> "x"
      [] c = "Y" -> "y"
      [] OTHER -> c

\* SQLExecuteResponse, without the timing.
Success(columns, rows, row_count, truncated) ==
    [success |-> TRUE, columns |-> columns, rows |-> rows,
     row_count |-> row_count, truncated |-> truncated, error |-> <<>>]
Failure(error) ==
    [success |-> FALSE, columns |-> <<>>, rows |-> <<>>,
     row_count |-> 0, truncated |-> FALSE, error |-> error]
NoResult == [success |-> FALSE, columns |-> <<>>, rows |-> <<>>,
             row_count |-> 0, truncated |-> FALSE, error |-> <<"none">>]

\* Error texts are strings, modelled as sequences of fragments so that an
\* f-string is a concatenation.
InternalPrefix == "Internal error: expected query failed - "
NoRelation == <<"relation \"t\" does not exist">>
NoColumn == <<"column \"y\" does not exist">>
SyntaxError == <<"syntax error at or near \"SELEC\"">>
TimedOut == <<"Query timed out after ", "30", " seconds">>
\* The message of a statement that raises an exception with a text of the
\* user's choice (DO ... RAISE EXCEPTION '<text>').
RaisedMessage == <<InternalPrefix>> \o NoColumn

\* A Question: what its setup_sql and expected_query do, and its hints.
GoodQuestion ==
    [setup_sql |-> "ok", expected_query |-> "ok", hints |-> <<"h1">>]
BrokenQuestion ==
    [setup_sql |-> "ok", expected_query |-> "bad", hints |-> <<"h1">>]
BadSetupQuestion ==
    [setup_sql |-> "bad", expected_query |-> "ok", hints |-> <<"h1">>]
Questions == {GoodQuestion, BrokenQuestion, BadSetupQuestion}
NoQuestion == [setup_sql |-> "none", expected_query |-> "none", hints |-> <<>>]

\* Contents of a schema: "empty" (no table), "ready" (setup_sql ran: table
\* t(x) holds 1, 2, 3) or "altered" (a statement removed table t).  The
\* setup batch is one simple-protocol message, which the database runs as
\* one transaction: a failed batch leaves the schema as it was.
Exists(d, name) == name \in DOMAIN d
Contents(d, name) == IF Exists(d, name) THEN d[name] ELSE "absent"

(***************************************************************************)
(* The database's answer to one statement run with the search path on a    *)
(* schema.  Statements are named by what they do.                          *)
(***************************************************************************)
UserQueries == {"select_all", "syntax_error", "raise_message", "drop_table"}

Row(text) == <<IntV(text)>>

Records(columns, records) ==
    [kind |-> "records", columns |-> columns, records |-> records,
     error |-> <<>>]
DbError(error) ==
    [kind |-> "error", columns |-> <<>>, records |-> <<>>, error |-> error]
DbTimeout ==
    [kind |-> "timeout", columns |-> <<>>, records |-> <<>>, error |-> <<>>]
\* An exception that is not a PostgresError, raised by the driver itself.
DriverError(error) ==
    [kind |-> "exception", columns |-> <<>>, records |-> <<>>, error |-> error]
\* A statement that returns no rows (conn.execute).
Executed ==
    [kind |-> "ok", columns |-> <<>>, records |-> <<>>, error |-> <<>>]

Fetch(contents, statement) ==
    CASE statement = "select_all" ->
            IF contents = "ready"
            THEN Records(<<"x">>, <<Row("3"), Row("1"), Row("2")>>)
            ELSE DbError(NoRelation)
      [] statement = "select_renamed_some" ->
            IF contents = "ready"
            THEN Records(<<"X">>, <<Row("2"), Row("3")>>)
            ELSE DbError(NoRelation)
      [] statement = "syntax_error" -> DbError(SyntaxError)
      [] statement = "raise_message" -> DbError(RaisedMessage)
      [] statement = "drop_table" ->
            IF contents = "ready" THEN Records(<<>>, <<>>)
            ELSE DbError(NoRelation)
      [] statement = "sleep" -> DbTimeout
      [] statement = "expected_ok" ->
            IF contents = "ready"
            THEN Records(<<"x">>, <<Row("1"), Row("2"), Row("3")>>)
            ELSE DbError(NoRelation)
      [] statement = "expected_bad" ->
            IF contents = "ready" THEN DbError(NoColumn)
            ELSE DbError(NoRelation)

\* The schema's contents after the statement.
ContentsAfter(contents, statement) ==
    IF statement = "drop_table" /\ contents = "ready" THEN "altered"
    ELSE contents

\* SET search_path TO {schema_name}, public: a name that holds a statement
\* separator makes the text more than one statement, and the database
\* rejects what follows the separator.
SetSearchPathFails(name) == \E k \in DOMAIN name : name[k] = ";"

\* question.expected_query as a statement.
ExpectedStatement(question) ==
    IF question.expected_query = "ok" THEN "expected_ok" ELSE "expected_bad"

(***************************************************************************)
(* Query executor: execute_query                                           *)
(***************************************************************************)
\* _serialize_value: primitives pass through, any other type is str(value).
SerializeValue(v) ==
    IF v.type \in {"int", "float", "str", "bool", "NoneType"} THEN v
    ELSE StrV(PyStr(v))

Min(a, b) == IF a <= b THEN a ELSE b

\* The response counts the rows it carries.
ExecuteResultCountsKept(answer, limit) ==
    CASE answer.kind = "timeout" -> Failure(TimedOut)
      [] answer.kind = "error" -> Failure(answer.error)
      [] answer.kind = "exception" ->
            Failure(<<"Unexpected error: ">> \o answer.error)
      [] answer.kind = "records" ->
            IF answer.records = <<>>
            THEN Success(<<>>, <<>>, 0, FALSE)
            ELSE LET total_rows == Len(answer.records)
                     kept == SubSeq(answer.records, 1, Min(limit, total_rows))
                 IN  Success(answer.columns,
                             [r \in DOMAIN kept |->
                                 [c \in DOMAIN kept[r] |->
                                     SerializeValue(kept[r][c])]],
                             Len(kept),
                             total_rows > limit)

\* The SQLExecuteResponse built from what the database answered.
ExecuteResult(answer, limit) ==
    CASE answer.kind = "timeout" -> Failure(TimedOut)
      [] answer.kind = "error" -> Failure(answer.error)
      [] answer.kind = "exception" ->
            Failure(<<"Unexpected error: ">> \o answer.error)
      [] answer.kind = "records" ->
            IF answer.records = <<>>
            THEN Success(<<>>, <<>>, 0, FALSE)
            ELSE LET total_rows == Len(answer.records)
                     kept == SubSeq(answer.records, 1, Min(limit, total_rows))
                 IN  Success(answer.columns,
                             [r \in DOMAIN kept |->
                                 [c \in DOMAIN kept[r] |->
                                     SerializeValue(kept[r][c])]],
                             total_rows,
                             total_rows > limit)

\* execute_query(conn, query, schema_name): the search path is set first,
\* and a database error there is returned like any other.
execute_query(d, statement, schema_name) ==
    IF SetSearchPathFails(schema_name)
    THEN Failure(SyntaxError)
    ELSE ExecuteResult(Fetch(Contents(d, schema_name), statement),
                       max_query_rows)

\* The database after execute_query.
DbAfterQuery(d, statement, schema_name) ==
    IF SetSearchPathFails(schema_name) \/ ~Exists(d, schema_name) THEN d
    ELSE [d EXCEPT ![schema_name] = ContentsAfter(d[schema_name], statement)]

(***************************************************************************)
(* Answer verifier: the comparison at the end of check_answer              *)
(***************************************************************************)
\* normalize_rows: set(tuple(str(v) for v in row) for row in rows)
normalize_rows(rows) ==
    { [c \in DOMAIN rows[r] |-> PyStr(rows[r][c])] : r \in DOMAIN rows }

LowerAll(columns) == [c \in DOMAIN columns |-> Lower(columns[c])]

columns_match(user_result, expected_result) ==
    LowerAll(user_result.columns) = LowerAll(expected_result.columns)

rows_match(user_result, expected_result) ==
    normalize_rows(user_result.rows) = normalize_rows(expected_result.rows)

symmetric_difference(a, b) == (a \ b) \cup (b \ a)

\* CheckAnswerResponse
Verdict(correct, user_result, expected_result, row_diff, error) ==
    [correct |-> correct,
     user_columns |-> user_result.columns, user_rows |-> user_result.rows,
     expected_columns |-> expected_result.columns,
     expected_rows |-> expected_result.rows,
     row_diff |-> row_diff, error |-> error]

EmptyResult == Success(<<>>, <<>>, 0, FALSE)

\* The verdict looks at the rows only.
CompareResultsRowsOnly(user_result, expected_result) ==
    LET user_set == normalize_rows(user_result.rows)
        expected_set == normalize_rows(expected_result.rows)
        correct == rows_match(user_result, expected_result)
        row_diff == Cardinality(symmetric_difference(user_set, expected_set))
    IN  Verdict(correct, user_result, expected_result, row_diff, <<>>)

\* The response when both queries succeeded.
CompareResults(user_result, expected_result) ==
    LET user_set == normalize_rows(user_result.rows)
        expected_set == normalize_rows(expected_result.rows)
        correct == /\ columns_match(user_result, expected_result)
                   /\ rows_match(user_result, expected_result)
        row_diff == Cardinality(symmetric_difference(user_set, expected_set))
    IN  Verdict(correct, user_result, expected_result, row_diff, <<>>)

\* The response when the user's query failed.
UserError(user_result) ==
    Verdict(FALSE, EmptyResult, EmptyResult, 0, user_result.error)

\* The response when the expected query failed.
ExpectedError(expected_result) ==
    Verdict(FALSE, EmptyResult, EmptyResult, 0,
            <<InternalPrefix>> \o expected_result.error)

(***************************************************************************)
(* Requests in flight                                                      *)
(***************************************************************************)
NoName == <<>>
NoBody == [correct |-> FALSE]

\* HTTPException(status_code, detail) and a 200 response with its body.
HTTPException(status, detail) ==
    [status |-> status, detail |-> detail, body |-> NoBody]
Ok(body) == [status |-> 200, detail |-> "", body |-> body]
NoResponse == [status |-> 0, detail |-> "", body |-> NoBody]

IdleTask ==
    [op |-> "none", pc |-> "idle", session_id |-> 0,
     schema_name |-> NoName, query |-> "none", question |-> NoQuestion,
     user_result |-> NoResult, executed |-> {}, acquired |-> FALSE,
     response |-> NoResponse]

\* A new request takes the first free slot.
Free(i) ==
    /\ tasks[i].pc = "idle"
    /\ \A j \in 1..(i - 1) : tasks[j].pc # "idle"

\* A request that begins: its arguments, no locals yet.
Begin(op, session_id, schema_name, query) ==
    [IdleTask EXCEPT !.op = op, !.session_id = session_id,
                     !.schema_name = schema_name, !.query = query]

\* A request that ends: the response is kept with what the claims need of
\* the call (its arguments, what it executed, whether it held a connection).
Done(t, response) ==
    [t EXCEPT !.pc = "done", !.response = response, !.question = NoQuestion,
              !.query = "none"]

NoReply == IdleTask

\* The task in slot i goes on as t.
Put(i, t) ==
    /\ tasks' = [tasks EXCEPT ![i] = t]
    /\ reply' = NoReply

\* The task in slot i returns: the slot is free again.
Return(i, done) ==
    /\ tasks' = [tasks EXCEPT ![i] = IdleTask]
    /\ reply' = done

Statement(op, text, name) == [op |-> op, text |-> text, name |-> name]
NoStatement == Statement("none", "none", NoName)

\* The step issues no statement that interpolates a schema name.
Quiet == last_sql' = NoStatement

\* async with get_connection(): get_pool raises 503 when there is no pool.
NoPool == HTTPException(503, "Database not available")

(***************************************************************************)
(* start_session: generate_practice_question and                           *)
(* generate_custom_practice_question                                       *)
(***************************************************************************)
LlmOutcomes == {"question", "bad_shape", "unreachable"}

\* generate_question: every failed attempt is caught and retried; when all
\* max_retries + 1 attempts failed it raises ValueError.
generate_question(attempts) ==
    IF \E k \in DOMAIN attempts : attempts[k] = "question"
    THEN "question" ELSE "ValueError"

\* generate_custom_question: a question, a validation error (ValueError) or
\* an availability error.
generate_custom_question(outcome) ==
    CASE outcome = "question" -> "question"
      [] outcome = "bad_shape" -> "ValueError"
      [] outcome = "unreachable" -> "Exception"

\* What the awaited generator can end with, for either endpoint.
GeneratorOutcomes ==
    { generate_question(a) : a \in [1..(max_retries + 1) -> LlmOutcomes] }
    \cup { generate_custom_question(o) : o \in LlmOutcomes }

\* Entry of either endpoint: a session id is minted and the rate limiter is
\* asked about it.  No more than limit ids are minted.
StartSessionWithin(i, limit) ==
    /\ Free(i)
    /\ minted < limit
    /\ LET session_id == minted + 1
           t == Begin("start_session", session_id, NoName, "none")
           admit == RateLimitAdmits(rate_limits, session_id, now)
       IN  /\ minted' = session_id
           /\ CheckRateLimit(session_id)
           /\ caller_admits' = IF admit THEN Append(caller_admits, now)
                               ELSE caller_admits
           /\ IF admit THEN Put(i, [t EXCEPT !.pc = "generate"])
              ELSE Return(i, Done(t, HTTPException(429, "Rate limit exceeded")))
    /\ Quiet
    /\ UNCHANGED <<now, active_sessions, db, pool, in_use, gc, harness>>

StartSession(i) == StartSessionWithin(i, MaxSessions)

\* The generator returned or raised; on a question the schema name is
\* generated and a connection is acquired.
GenerateEnds(i, outcome) ==
    /\ tasks[i].pc = "generate"
    /\ \E question \in Questions, schema_name \in GeneratedNames :
          LET t == tasks[i]
          IN  CASE outcome = "ValueError" ->
                      /\ Return(i, Done(t, HTTPException(500, "ValueError")))
                      /\ UNCHANGED in_use
                [] outcome = "Exception" ->
                      /\ Return(i, Done(t, HTTPException(503,
                                           "Failed to generate question")))
                      /\ UNCHANGED in_use
                [] outcome = "question" /\ pool = "none" ->
                      /\ Return(i, Done(t, NoPool))
                      /\ UNCHANGED in_use
                [] outcome = "question" /\ pool = "open" ->
                      /\ Put(i, [t EXCEPT !.pc = "create_schema",
                                          !.question = question,
                                          !.schema_name = schema_name,
                                          !.acquired = TRUE])
                      /\ in_use' = in_use + 1
    /\ Quiet
    /\ UNCHANGED <<now, limiter_vars, caller_admits, store_vars, db, pool, gc>>

\* Either endpoint.
StartGenerated(i) ==
    /\ \E outcome \in GeneratorOutcomes : GenerateEnds(i, outcome)
    /\ UNCHANGED harness

\* /practice/generate, with what the backing model answered to each of the
\* attempts of generate_question.
StartGenerateQuestion(i, attempts) ==
    /\ GenerateEnds(i, generate_question(attempts))
    /\ seen' = [seen EXCEPT !.attempts = attempts]
    /\ UNCHANGED <<verify, meta, run>>

\* execute_setup_sql: CREATE SCHEMA IF NOT EXISTS {schema_name}
StartCreateSchema(i) ==
    /\ tasks[i].pc = "create_schema"
    /\ LET t == tasks[i]
       IN  /\ last_sql' = Statement(t.op, "CREATE SCHEMA IF NOT EXISTS",
                                    t.schema_name)
           /\ db' = IF Exists(db, t.schema_name) THEN db
                    ELSE (t.schema_name :> "empty") @@ db
           /\ Put(i, [t EXCEPT !.pc = "setup_sql"])
    /\ UNCHANGED <<now, limiter_vars, caller_admits, store_vars, pool_vars,
                   gc, harness>>

\* setup_sql creates table t: it succeeds in a schema that has no table t.
SetupSucceeds(d, question, schema_name) ==
    /\ question.setup_sql = "ok"
    /\ Contents(d, schema_name) \in {"empty", "altered"}

\* The session is stored whether or not the setup succeeded.
StartSetupUnchecked(i) ==
    /\ tasks[i].pc = "setup_sql"
    /\ LET t == tasks[i]
       IN  /\ last_sql' = Statement(t.op, "SET search_path TO", t.schema_name)
           /\ in_use' = in_use - 1
           /\ db' = IF SetupSucceeds(db, t.question, t.schema_name)
                    THEN [db EXCEPT ![t.schema_name] = "ready"] ELSE db
           /\ active_sessions' =
                 (t.session_id :>
                     [schema_name |-> t.schema_name,
                      question |-> t.question,
                      hints_revealed |-> 0,
                      created_at |-> now]) @@ active_sessions
           /\ Return(i, Done(t, Ok([session_id |-> t.session_id,
                                    schema_name |-> t.schema_name,
                                    question |-> t.question])))
    /\ UNCHANGED <<now, limiter_vars, caller_admits, minted, pool, gc, harness>>

\* execute_setup_sql: SET search_path TO {schema_name}, then setup_sql; the
\* connection is released, and on success the session is stored.
StartSetup(i) ==
    /\ tasks[i].pc = "setup_sql"
    /\ LET t == tasks[i]
       IN  /\ last_sql' = Statement(t.op, "SET search_path TO", t.schema_name)
           /\ in_use' = in_use - 1
           /\ IF SetupSucceeds(db, t.question, t.schema_name)
              THEN /\ db' = [db EXCEPT ![t.schema_name] = "ready"]
                   /\ active_sessions' =
                         (t.session_id :>
                             [schema_name |-> t.schema_name,
                              question |-> t.question,
                              hints_revealed |-> 0,
                              created_at |-> now]) @@ active_sessions
                   /\ Return(i, Done(t, Ok([session_id |-> t.session_id,
                                         schema_name |-> t.schema_name,
                                         question |-> t.question])))
              ELSE /\ Return(i, Done(t, HTTPException(500,
                                     "Failed to set up practice database")))
                   /\ UNCHANGED <<db, active_sessions>>
    /\ UNCHANGED <<now, limiter_vars, caller_admits, minted, pool, gc, harness>>

(***************************************************************************)
(* check_answer                                                            *)
(***************************************************************************)
\* The session is looked up before the schema name is validated.
CheckAnswerLookupFirst(i, session_id, schema_name, query) ==
    /\ Free(i)
    /\ LET t == Begin("check_answer", session_id, schema_name, query)
       IN  CASE session_id \notin DOMAIN active_sessions ->
                   /\ Return(i, Done(t, HTTPException(404, "Session not found")))
                   /\ UNCHANGED in_use
             [] /\ session_id \in DOMAIN active_sessions
                /\ ~validate_schema_name(schema_name) ->
                   /\ Return(i, Done(t, HTTPException(400,
                                        "Invalid schema name format")))
                   /\ UNCHANGED in_use
             [] /\ validate_schema_name(schema_name)
                /\ session_id \in DOMAIN active_sessions
                /\ active_sessions[session_id].schema_name # schema_name ->
                   /\ Return(i, Done(t, HTTPException(400, "Schema mismatch")))
                   /\ UNCHANGED in_use
             [] OTHER ->
                   IF pool = "none"
                   THEN /\ Return(i, Done(t, NoPool))
                        /\ UNCHANGED in_use
                   ELSE /\ Put(i, [t EXCEPT
                                     !.pc = "user_query",
                                     !.question =
                                         active_sessions[session_id].question,
                                     !.acquired = TRUE])
                        /\ in_use' = in_use + 1
    /\ Quiet
    /\ UNCHANGED <<now, limiter_vars, caller_admits, store_vars, db, pool, gc, harness>>

\* Entry: the three checks in the order of the code, then the connection.
CheckAnswer(i, session_id, schema_name, query) ==
    /\ Free(i)
    /\ LET t == Begin("check_answer", session_id, schema_name, query)
       IN  CASE ~validate_schema_name(schema_name) ->
                   /\ Return(i, Done(t, HTTPException(400,
                                     "Invalid schema name format")))
                   /\ UNCHANGED in_use
             [] /\ validate_schema_name(schema_name)
                /\ session_id \notin DOMAIN active_sessions ->
                   /\ Return(i, Done(t, HTTPException(404, "Session not found")))
                   /\ UNCHANGED in_use
             [] /\ validate_schema_name(schema_name)
                /\ session_id \in DOMAIN active_sessions
                /\ active_sessions[session_id].schema_name # schema_name ->
                   /\ Return(i, Done(t, HTTPException(400, "Schema mismatch")))
                   /\ UNCHANGED in_use
             [] OTHER ->
                   IF pool = "none"
                   THEN /\ Return(i, Done(t, NoPool))
                        /\ UNCHANGED in_use
                   ELSE /\ Put(i, [t EXCEPT
                                     !.pc = "user_query",
                                     !.question =
                                         active_sessions[session_id].question,
                                     !.acquired = TRUE])
                        /\ in_use' = in_use + 1
    /\ Quiet
    /\ UNCHANGED <<now, limiter_vars, caller_admits, store_vars, db,
                   pool, gc, harness>>

\* The user's query runs, and the call goes on to the expected query even
\* when it failed.
CheckUserQueryNoReturn(i) ==
    /\ tasks[i].pc = "user_query"
    /\ LET t == tasks[i]
           user_result == execute_query(db, t.query, t.schema_name)
           ran == [t EXCEPT !.executed = @ \cup {"user"},
                           !.user_result = user_result]
       IN  /\ last_sql' = Statement(t.op, "SET search_path TO", t.schema_name)
           /\ db' = DbAfterQuery(db, t.query, t.schema_name)
           /\ Put(i, [ran EXCEPT !.pc = "expected_query"])
           /\ UNCHANGED in_use
    /\ UNCHANGED <<now, limiter_vars, caller_admits, store_vars, pool, gc, harness>>

\* The early return after a failed user query leaves the connection held.
CheckUserQueryKeepsConnection(i) ==
    /\ tasks[i].pc = "user_query"
    /\ LET t == tasks[i]
           user_result == execute_query(db, t.query, t.schema_name)
           ran == [t EXCEPT !.executed = @ \cup {"user"},
                           !.user_result = user_result]
       IN  /\ last_sql' = Statement(t.op, "SET search_path TO", t.schema_name)
           /\ db' = DbAfterQuery(db, t.query, t.schema_name)
           /\ UNCHANGED in_use
           /\ IF ~user_result.success
              THEN Return(i, Done(ran, Ok(UserError(user_result))))
              ELSE Put(i, [ran EXCEPT !.pc = "expected_query"])
    /\ UNCHANGED <<now, limiter_vars, caller_admits, store_vars, pool, gc, harness>>

\* The user's query runs; a failure ends the call.
CheckUserQuery(i) ==
    /\ tasks[i].pc = "user_query"
    /\ LET t == tasks[i]
           user_result == execute_query(db, t.query, t.schema_name)
           ran == [t EXCEPT !.executed = @ \cup {"user"},
                           !.user_result = user_result]
       IN  /\ last_sql' = Statement(t.op, "SET search_path TO", t.schema_name)
           /\ db' = DbAfterQuery(db, t.query, t.schema_name)
           /\ IF ~user_result.success
              THEN /\ Return(i, Done(ran, Ok(UserError(user_result))))
                   /\ in_use' = in_use - 1
              ELSE /\ Put(i, [ran EXCEPT !.pc = "expected_query"])
                   /\ UNCHANGED in_use
    /\ UNCHANGED <<now, limiter_vars, caller_admits, store_vars, pool, gc, harness>>

\* The expected query runs on the same connection; then the comparison.
CheckExpectedQuery(i) ==
    /\ tasks[i].pc = "expected_query"
    /\ LET t == tasks[i]
           statement == ExpectedStatement(t.question)
           expected_result == execute_query(db, statement, t.schema_name)
           ran == [t EXCEPT !.executed = @ \cup {"expected"}]
       IN  /\ last_sql' = Statement(t.op, "SET search_path TO", t.schema_name)
           /\ db' = DbAfterQuery(db, statement, t.schema_name)
           /\ in_use' = in_use - 1
           /\ Return(i, Done(ran,
                   IF ~expected_result.success
                   THEN Ok(ExpectedError(expected_result))
                   ELSE Ok(CompareResults(t.user_result, expected_result))))
    /\ UNCHANGED <<now, limiter_vars, caller_admits, store_vars, pool, gc, harness>>

\* The counter goes on counting past the last hint.
GetHintUncapped(i, session_id) ==
    /\ Free(i)
    /\ LET t == Begin("get_hint", session_id, NoName, "none")
       IN  IF session_id \notin DOMAIN active_sessions
           THEN /\ Return(i, Done(t, HTTPException(404, "Session not found")))
                /\ UNCHANGED active_sessions
           ELSE LET session == active_sessions[session_id]
                    all_hints == session.question.hints
                    revealed == session.hints_revealed + 1
                IN  /\ active_sessions' =
                          [active_sessions EXCEPT
                              ![session_id].hints_revealed = revealed]
                    /\ Return(i, Done(t, Ok([hints |-> SubSeq(all_hints, 1,
                                               Min(revealed, Len(all_hints))),
                                          revealed_count |-> revealed])))
    /\ Quiet
    /\ UNCHANGED <<now, limiter_vars, caller_admits, minted,
                   db, pool_vars, gc, harness>>

(***************************************************************************)
(* get_hint                                                                *)
(***************************************************************************)
\* The new count is returned and not stored.
GetHintCallNoWrite(i, session_id) ==
    /\ Free(i)
    /\ LET t == Begin("get_hint", session_id, NoName, "none")
       IN  IF session_id \notin DOMAIN active_sessions
           THEN Return(i, Done(t, HTTPException(404, "Session not found")))
           ELSE LET session == active_sessions[session_id]
                    all_hints == session.question.hints
                    revealed == Min(session.hints_revealed + 1, Len(all_hints))
                IN  Return(i, Done(t, Ok([hints |-> SubSeq(all_hints, 1, revealed),
                                          revealed_count |-> revealed])))
    /\ Quiet
    /\ UNCHANGED <<now, limiter_vars, caller_admits, store_vars,
                   db, pool_vars, gc>>

\* The handler has no await: it runs from its first line to its return
\* before any other request's code does.
GetHintCall(i, session_id) ==
    /\ Free(i)
    /\ LET t == Begin("get_hint", session_id, NoName, "none")
       IN  IF session_id \notin DOMAIN active_sessions
           THEN /\ Return(i, Done(t, HTTPException(404, "Session not found")))
                /\ UNCHANGED active_sessions
           ELSE LET session == active_sessions[session_id]
                    all_hints == session.question.hints
                    revealed == Min(session.hints_revealed + 1, Len(all_hints))
                IN  /\ active_sessions' =
                          [active_sessions EXCEPT
                              ![session_id].hints_revealed = revealed]
                    /\ Return(i, Done(t, Ok([hints |-> SubSeq(all_hints, 1, revealed),
                                          revealed_count |-> revealed])))
    /\ Quiet
    /\ UNCHANGED <<now, limiter_vars, caller_admits, minted,
                   db, pool_vars, gc>>

GetHint(i, session_id) ==
    /\ GetHintCall(i, session_id)
    /\ UNCHANGED harness

\* The calls made for a session so far.
HintCalls(session_id) == HistoryOf(seen.hint_calls, session_id)

\* get_hint, with the calls for each session counted, up to one call more
\* than the most hints a question has.
GetHintCounted(i, session_id) ==
    /\ Len(HintCalls(session_id)) <= MaxHints
    /\ GetHintCall(i, session_id)
    /\ seen' = [seen EXCEPT !.hint_calls =
                   (session_id :> Append(HintCalls(session_id), "call")) @@ @]
    /\ UNCHANGED <<verify, meta, run>>

(***************************************************************************)
(* end_session: cleanup_session                                            *)
(***************************************************************************)
Without(f, x) == [y \in DOMAIN f \ {x} |-> f[y]]

\* Entry: the session is looked up and its schema name validated.
EndSession(i, session_id) ==
    /\ Free(i)
    /\ LET t == Begin("cleanup_session", session_id, NoName, "none")
       IN  IF session_id \notin DOMAIN active_sessions
           THEN /\ Return(i, Done(t, HTTPException(404, "Session not found")))
                /\ UNCHANGED in_use
           ELSE LET schema_name == active_sessions[session_id].schema_name
                    found == [t EXCEPT !.schema_name = schema_name]
                IN  IF ~validate_schema_name(schema_name)
                    THEN /\ Return(i, Done(found, HTTPException(400,
                                           "Invalid schema name format")))
                         /\ UNCHANGED in_use
                    ELSE IF pool = "none"
                    THEN /\ Return(i, Done(found, NoPool))
                         /\ UNCHANGED in_use
                    ELSE /\ Put(i, [found EXCEPT !.pc = "drop_schema",
                                                 !.acquired = TRUE])
                         /\ in_use' = in_use + 1
    /\ Quiet
    /\ UNCHANGED <<now, limiter_vars, caller_admits, store_vars, db,
                   pool, gc, harness>>

\* A failed drop is not swallowed: the call fails and the session stays.
EndDropSchemaRaises(i) ==
    /\ tasks[i].pc = "drop_schema"
    /\ LET t == tasks[i]
       IN  /\ last_sql' = Statement(t.op, "DROP SCHEMA IF EXISTS", t.schema_name)
           /\ in_use' = in_use - 1
           /\ \E drop_fails \in BOOLEAN :
                 IF drop_fails
                 THEN /\ UNCHANGED <<db, active_sessions>>
                      /\ Return(i, Done(t, HTTPException(500, "PostgresError")))
                 ELSE /\ db' = Without(db, t.schema_name)
                      /\ IF t.session_id \in DOMAIN active_sessions
                         THEN /\ active_sessions' =
                                    Without(active_sessions, t.session_id)
                              /\ Return(i, Done(t, Ok([status |-> "cleaned",
                                              schema_name |-> t.schema_name])))
                         ELSE /\ UNCHANGED active_sessions
                              /\ Return(i, Done(t, HTTPException(500, "KeyError")))
    /\ UNCHANGED <<now, limiter_vars, caller_admits, minted,
                   pool, gc, harness>>

\* The store is emptied where only the addressed entry is to go.
EndDropSchemaClearsStore(i) ==
    /\ tasks[i].pc = "drop_schema"
    /\ LET t == tasks[i]
       IN  /\ last_sql' = Statement(t.op, "DROP SCHEMA IF EXISTS", t.schema_name)
           /\ \E drop_fails \in BOOLEAN :
                 db' = IF drop_fails THEN db ELSE Without(db, t.schema_name)
           /\ in_use' = in_use - 1
           /\ IF t.session_id \in DOMAIN active_sessions
              THEN /\ active_sessions' = <<>>
                   /\ Return(i, Done(t, Ok([status |-> "cleaned",
                                         schema_name |-> t.schema_name])))
              ELSE /\ UNCHANGED active_sessions
                   /\ Return(i, Done(t, HTTPException(500, "KeyError")))
    /\ UNCHANGED <<now, limiter_vars, caller_admits, minted,
                   pool, gc, harness>>

\* DROP SCHEMA IF EXISTS {schema_name} CASCADE, any error swallowed; the
\* connection is released; del _active_sessions[session_id] raises KeyError
\* when the entry is gone.
EndDropSchema(i) ==
    /\ tasks[i].pc = "drop_schema"
    /\ LET t == tasks[i]
       IN  /\ last_sql' = Statement(t.op, "DROP SCHEMA IF EXISTS", t.schema_name)
           /\ \E drop_fails \in BOOLEAN :
                 db' = IF drop_fails THEN db ELSE Without(db, t.schema_name)
           /\ in_use' = in_use - 1
           /\ IF t.session_id \in DOMAIN active_sessions
              THEN /\ active_sessions' = Without(active_sessions, t.session_id)
                   /\ Return(i, Done(t, Ok([status |-> "cleaned",
                                         schema_name |-> t.schema_name])))
              ELSE /\ UNCHANGED active_sessions
                   /\ Return(i, Done(t, HTTPException(500, "KeyError")))
    /\ UNCHANGED <<now, limiter_vars, caller_admits, minted,
                   pool, gc, harness>>

(***************************************************************************)
(* run_free_query: execute_sql                                             *)
(***************************************************************************)
\* A query text: leading whitespace or not, its first word as typed, and
\* the schema it names, if any.
SqlText(space, word, target) ==
    [space |-> space, word |-> word, target |-> target]

FreeQueries ==
    { SqlText(FALSE, "SELECT", NoName),
      SqlText(FALSE, "CREATE", LookalikeName) }

\* request.query.strip()
Strip(query) == [query EXCEPT !.space = FALSE]

\* query.upper() on the first words used here.
Upper(word) ==
    CASE word = "drop" -> "DROP"
      [] word = "with" -> "WITH"
      [] word = "select" -> "SELECT"
      [] word = "Truncate" -> "TRUNCATE"
      [] word = "delete" -> "DELETE"
      [] word = "Update" -> "UPDATE"
      [] word = "insert" -> "INSERT"
      [] word = "alter" -> "ALTER"
      [] word = "cREATE" -> "CREATE"
      [] word = "grant" -> "GRANT"
      [] word = "Revoke" -> "REVOKE"
      [] OTHER -> word

blocked_keywords == {"DROP", "TRUNCATE", "DELETE", "UPDATE", "INSERT",
                     "ALTER", "CREATE", "GRANT", "REVOKE"}

\* query_upper.startswith(keyword), for a text that begins with whitespace
\* or with one of the first words above.
StartsWith(query, keyword) == ~query.space /\ Upper(query.word) = keyword

NoSchema == <<"None">>

\* The empty string; like None, it is falsy.
EmptyName == <<>>

\* if schema_name:
Truthy(schema_name) == schema_name \notin {NoSchema, EmptyName}

\* Entry: the denylist applies when no schema name was given.
ExecuteSql(i, request_query, schema_name) ==
    /\ Free(i)
    /\ LET query == Strip(request_query)
           t == Begin("execute_sql", 0, schema_name, query)
       IN  IF /\ schema_name = NoSchema
              /\ \E keyword \in blocked_keywords : StartsWith(query, keyword)
           THEN /\ Return(i, Done(t, HTTPException(400, "Statement type not allowed")))
                /\ UNCHANGED in_use
           ELSE IF pool = "none"
           THEN /\ Return(i, Done(t, NoPool))
                /\ UNCHANGED in_use
           ELSE /\ Put(i, [t EXCEPT !.pc = "free_query", !.acquired = TRUE])
                /\ in_use' = in_use + 1
    /\ Quiet
    /\ UNCHANGED <<now, limiter_vars, caller_admits, store_vars, db,
                   pool, gc, harness>>

\* What the statement does to the database.
DbAfterSql(d, query) ==
    CASE Upper(query.word) = "CREATE" /\ ~Exists(d, query.target) ->
            (query.target :> "empty") @@ d
      [] Upper(query.word) = "DROP" -> Without(d, query.target)
      [] OTHER -> d

\* execute_query(conn, query, schema_name): the search path is set when a
\* schema name was given, then the statement runs.
ExecuteSqlQuery(i) ==
    /\ tasks[i].pc = "free_query"
    /\ LET t == tasks[i]
           set_path == Truthy(t.schema_name)
           fails == set_path /\ SetSearchPathFails(t.schema_name)
       IN  /\ last_sql' = IF set_path
                          THEN Statement(t.op, "SET search_path TO", t.schema_name)
                          ELSE NoStatement
           /\ db' = IF fails THEN db ELSE DbAfterSql(db, t.query)
           /\ in_use' = in_use - 1
           /\ Return(i, Done([t EXCEPT !.executed = IF fails THEN {} ELSE {"query"}],
                          Ok(IF fails THEN Failure(SyntaxError)
                             ELSE Success(<<>>, <<>>, 0, FALSE))))
    /\ UNCHANGED <<now, limiter_vars, caller_admits, store_vars, pool, gc, harness>>

(***************************************************************************)
(* Garbage collector, heuristic strategy: cleanup_old_schemas              *)
(***************************************************************************)
\* An answer of the age query: an age in hours, NULL, or a database error.
Age(hours) == [kind |-> "age", hours |-> hours]
UnknownAge == [kind |-> "unknown", hours |-> 0]
AgeError == [kind |-> "error", hours |-> 0]

GcIdle ==
    [pc |-> "idle", todo |-> {}, dropped |-> <<>>, schema_name |-> NoName,
     oldest_table |-> UnknownAge]

\* The script's state as its steps leave it alone.
GcQuiet ==
    /\ reply' = NoReply
    /\ UNCHANGED <<now, limiter_vars, caller_admits, store_vars, pool_vars,
                   tasks, harness>>

\* table_count > 0 for the schema.
HasTables(contents) == contents = "ready"

\* Ages in hours the age query can report for a schema that has tables.
Ages == {Age(max_age_hours), Age(max_age_hours + 1)}

\* What the age query can end with: the oldest creation time of the
\* schema's tables as the file system reports it, NULL when it reports none
\* or there is no table, or a database error.
AgeAnswers(contents) ==
    IF HasTables(contents) THEN Ages \cup {UnknownAge, AgeError}
    ELSE {UnknownAge, AgeError}

\* The script connects and lists the schemas LIKE 'practice_%'.
GcStart ==
    /\ gc.pc = "idle"
    /\ gc' = [GcIdle EXCEPT
                 !.pc = "loop",
                 !.todo = { name \in DOMAIN db : LikePractice(name) }]
    /\ Quiet
    /\ GcQuiet
    /\ UNCHANGED db

\* for record in schemas: the age query.  A known age decides by itself;
\* a database error leaves the function, which closes the connection.
GcAge ==
    /\ gc.pc = "loop"
    /\ \E schema_name \in gc.todo :
       \E oldest_table \in AgeAnswers(Contents(db, schema_name)) :
          gc' = IF oldest_table = AgeError THEN GcIdle
                ELSE IF oldest_table = UnknownAge
                THEN [gc EXCEPT !.pc = "count",
                                !.schema_name = schema_name,
                                !.oldest_table = oldest_table]
                ELSE IF oldest_table.hours > max_age_hours
                THEN [gc EXCEPT !.pc = "drop",
                                !.schema_name = schema_name,
                                !.oldest_table = oldest_table]
                ELSE [gc EXCEPT !.pc = "loop", !.todo = @ \ {schema_name}]
    /\ Quiet
    /\ GcQuiet
    /\ UNCHANGED db

\* The age is unknown: the schema is dropped when it has no tables.
GcCount ==
    /\ gc.pc = "count"
    /\ gc' = IF ~HasTables(Contents(db, gc.schema_name))
             THEN [gc EXCEPT !.pc = "drop"]
             ELSE [gc EXCEPT !.pc = "loop", !.todo = @ \ {gc.schema_name},
                             !.schema_name = NoName]
    /\ Quiet
    /\ GcQuiet
    /\ UNCHANGED db

\* DROP SCHEMA IF EXISTS {schema_name} CASCADE
GcDrop ==
    /\ gc.pc = "drop"
    /\ last_sql' = Statement("cleanup_old_schemas", "DROP SCHEMA IF EXISTS",
                             gc.schema_name)
    /\ db' = Without(db, gc.schema_name)
    /\ gc' = [gc EXCEPT !.pc = "loop", !.todo = @ \ {gc.schema_name},
                        !.dropped = Append(@, gc.schema_name),
                        !.schema_name = NoName,
                        !.oldest_table = UnknownAge]
    /\ GcQuiet

\* The loop is over: the connection is closed and the list returned.
GcFinish ==
    /\ gc.pc = "loop"
    /\ gc.todo = {}
    /\ gc' = GcIdle
    /\ Quiet
    /\ GcQuiet
    /\ UNCHANGED db

(***************************************************************************)
(* Garbage collector, metadata strategy: cleanup_with_metadata_table       *)
(***************************************************************************)
\* public.aide_practice_meta is a function from schema names to created_at,
\* in hours; clock is datetime.now() in hours.
NoSnapshot == [rows |-> <<>>, db |-> <<>>]

MetaIdle ==
    [rows |-> <<>>, clock |-> 0, pc |-> "idle", cutoff |-> 0, old |-> {},
     schema_name |-> NoName, dropped |-> <<>>, returned |-> <<>>,
     at_start |-> NoSnapshot]

\* The script's state as its steps leave it alone.
MetaQuiet ==
    /\ reply' = NoReply
    /\ UNCHANGED <<now, limiter_vars, caller_admits, store_vars, pool_vars,
                   tasks, gc, verify, run, seen>>

\* The rows as they were handed to the selection with the bound "older or
\* as old as the cutoff".
OldSchemasInclusive(rows, cutoff) ==
    { name \in DOMAIN rows : rows[name] <= cutoff }

\* SELECT schema_name FROM public.aide_practice_meta WHERE created_at < $1
OldSchemas(rows, cutoff) == { name \in DOMAIN rows : rows[name] < cutoff }

\* Time passes between runs of the script.
MetaTick ==
    /\ meta.pc = "idle"
    /\ meta.clock < MaxClock
    /\ meta' = [meta EXCEPT !.clock = @ + 1]
    /\ Quiet
    /\ MetaQuiet
    /\ UNCHANGED db

\* The script connects, creates the table when it is missing, computes the
\* cutoff and selects the old schemas.
MetaStart ==
    /\ meta.pc = "idle"
    /\ LET cutoff == meta.clock - max_age_hours
       IN  meta' = [meta EXCEPT
                       !.pc = "loop",
                       !.cutoff = cutoff,
                       !.old = OldSchemas(meta.rows, cutoff),
                       !.dropped = <<>>,
                       !.returned = <<>>,
                       !.at_start = [rows |-> meta.rows, db |-> db]]
    /\ Quiet
    /\ MetaQuiet
    /\ UNCHANGED db

\* for record in old_schemas: DROP SCHEMA IF EXISTS {schema_name} CASCADE
MetaDrop ==
    /\ meta.pc = "loop"
    /\ \E schema_name \in meta.old :
          /\ last_sql' = Statement("cleanup_with_metadata_table",
                                   "DROP SCHEMA IF EXISTS", schema_name)
          /\ db' = Without(db, schema_name)
          /\ meta' = [meta EXCEPT !.pc = "delete", !.schema_name = schema_name]
    /\ MetaQuiet

\* DELETE FROM public.aide_practice_meta WHERE schema_name = $1
MetaDelete ==
    /\ meta.pc = "delete"
    /\ meta' = [meta EXCEPT
                   !.pc = "loop",
                   !.rows = Without(@, meta.schema_name),
                   !.old = @ \ {meta.schema_name},
                   !.dropped = Append(@, meta.schema_name),
                   !.schema_name = NoName]
    /\ Quiet
    /\ MetaQuiet
    /\ UNCHANGED db

\* DELETE ... WHERE NOT EXISTS (the schema): rows of schemas that are gone.
MetaOrphans ==
    /\ meta.pc = "loop"
    /\ meta.old = {}
    /\ meta' = [meta EXCEPT
                   !.pc = "close",
                   !.rows = [name \in { n \in DOMAIN @ : Exists(db, n) } |-> @[name]]]
    /\ Quiet
    /\ MetaQuiet
    /\ UNCHANGED db

\* The connection is closed and the list returned.
MetaFinish ==
    /\ meta.pc = "close"
    /\ meta' = [meta EXCEPT !.pc = "idle", !.returned = meta.dropped,
                            !.dropped = <<>>]
    /\ Quiet
    /\ MetaQuiet
    /\ UNCHANGED db

(***************************************************************************)
(* The comparison of check_answer on its own: results as execute_query     *)
(* returns them, and changes to them that must not change the verdict      *)
(***************************************************************************)
Values == {IntV("1"), IntV("2"), IntV("3"), StrV("1")}
ColumnNames == {"x", "X", "y"}

RowLists == UNION { [1..n -> {<<v>> : v \in Values}] : n \in 0..MaxRows }

\* A successful result of execute_query over the given rows: no rows means
\* no columns.
ResultOf(column, rows) ==
    IF rows = <<>> THEN EmptyResult
    ELSE Success(<<column>>, rows, Len(rows), FALSE)

UserResults == { ResultOf(c, rows) : c \in ColumnNames, rows \in RowLists }

ExpectedResults ==
    { ResultOf("x", <<<<IntV("1")>>, <<IntV("2")>>, <<IntV("3")>>>>),
      ResultOf("x", <<<<IntV("1")>>, <<IntV("1")>>>>),
      ResultOf("x", <<<<StrV("1")>>, <<IntV("2")>>>>),
      EmptyResult }

Compared(user_result, expected_result) ==
    [user |-> user_result, expected |-> expected_result,
     verdict |-> CompareResults(user_result, expected_result)]

NoVerify == Compared(EmptyResult, EmptyResult)

Side(which) == IF which = "user" THEN verify.user ELSE verify.expected

\* The comparison runs again with one side replaced.
Recompare(which, result) ==
    /\ verify' = IF which = "user" THEN Compared(result, verify.expected)
                 ELSE Compared(verify.user, result)
    /\ UNCHANGED <<now, limiter_vars, caller_admits, server_vars, meta, run,
                   seen>>

Swap(rows, k) ==
    [r \in DOMAIN rows |->
        IF r = k THEN rows[k + 1] ELSE IF r = k + 1 THEN rows[k] ELSE rows[r]]

\* The database returns the same rows in another order.
PermuteRows(which, k) ==
    /\ k \in 1..(Len(Side(which).rows) - 1)
    /\ Recompare(which, [Side(which) EXCEPT !.rows = Swap(@, k)])

\* The database returns a row it already returned once more.
DuplicateRow(which, k) ==
    /\ k \in 1..Len(Side(which).rows)
    /\ Len(Side(which).rows) < MaxRows
    /\ Recompare(which, [Side(which) EXCEPT
                            !.rows = Append(@, @[k]),
                            !.row_count = @ + 1])

OtherCase(c) ==
    CASE c = "x" -> "X"
      [] c = "X" -> "x"
      [] c = "y" -> "Y"
      [] c = "Y" -> "y"

\* A column comes back under the same name in the other letter case.
ChangeCase(which, c) ==
    /\ c \in DOMAIN Side(which).columns
    /\ Recompare(which, [Side(which) EXCEPT !.columns[c] = OtherCase(@)])

(***************************************************************************)
(* execute_query and execute_setup_sql on their own: calls made one after  *)
(* the other on one connection, with the database's answers as inputs      *)
(***************************************************************************)
\* Nothing seen yet.
NoSeen ==
    [attempts |-> <<>>, hint_calls |-> <<>>, user_answer |-> Executed,
     expected_answer |-> Executed, origin |-> "none", name |-> <<>>,
     valid |-> FALSE]

NoSetupResult == [success |-> FALSE, error |-> <<"none">>]

NoRun ==
    [pc |-> "idle", op |-> "none", schema_name |-> NoSchema, limit |-> 0,
     create |-> Executed, path |-> Executed, answer |-> Executed,
     submitted |-> 0,
     server |-> "idle", cancelling |-> FALSE, result |-> NoResult,
     setup |-> NoSetupResult, after_timeout |-> FALSE]

\* limit = limit or settings.max_query_rows; None and 0 are both falsy and
\* are one value here.
EffectiveLimit(limit) == IF limit = 0 THEN max_query_rows ELSE limit

\* The connection refuses a command while an earlier one is in progress.
Busy == <<"cannot perform operation: another operation is in progress">>

LimitInputs == 0..MaxLimit

\* The first k rows of the table, under column x.
SomeRecords(k) == Records(<<"x">>, [r \in 1..k |-> Row(ToString(r))])

PathAnswers == {Executed, DbError(SyntaxError), DriverError(Busy)}

FetchAnswers ==
    { SomeRecords(k) : k \in 0..MaxRows }
    \cup {DbError(NoRelation), DbError(SyntaxError), DriverError(Busy),
          DbTimeout}

\* conn.fetch(query) goes to the server.
Submit(call) ==
    [call EXCEPT !.pc = "fetch", !.submitted = @ + 1, !.server = "running"]

\* The call returns its response.
Respond(call, answer) ==
    [call EXCEPT !.pc = "returned",
                 !.result = ExecuteResult(answer, EffectiveLimit(call.limit))]

\* Entry of execute_query.  The driver holds a new command back until the
\* cancellation of the one before is over.
ExecuteQuery(schema_name, limit, path, answer) ==
    /\ run.pc \in {"idle", "returned"}
    /\ ~run.cancelling
    /\ LET call == [run EXCEPT !.op = "execute_query",
                               !.schema_name = schema_name,
                               !.limit = limit,
                               !.path = IF Truthy(schema_name) THEN path
                                        ELSE Executed,
                               !.answer = answer,
                               !.submitted = 0,
                               !.result = NoResult,
                               !.after_timeout =
                                   /\ run.op = "execute_query"
                                   /\ run.result = Failure(TimedOut)]
       IN  run' = IF run.server = "running"
                  THEN Respond(call, DriverError(Busy))
                  ELSE IF Truthy(schema_name)
                  THEN [call EXCEPT !.pc = "search_path"]
                  ELSE Submit(call)
    /\ UNCHANGED <<now, limiter_vars, caller_admits, server_vars, verify, meta,
                   seen>>

\* The answer to SET search_path is not looked at.
SetSearchPathIgnored ==
    /\ run.pc = "search_path"
    /\ run' = Submit(run)
    /\ UNCHANGED <<now, limiter_vars, caller_admits, server_vars, verify, meta,
                   seen>>

\* SET search_path TO {schema_name}, public has been answered.
SetSearchPath ==
    /\ run.pc = "search_path"
    /\ run' = IF run.path = Executed THEN Submit(run)
              ELSE Respond(run, run.path)
    /\ UNCHANGED <<now, limiter_vars, caller_admits, server_vars, verify, meta,
                   seen>>

\* The statement ends before the deadline, with records or with an error.
FetchReturns ==
    /\ run.pc = "fetch"
    /\ run.answer # DbTimeout
    /\ run' = [Respond(run, run.answer) EXCEPT !.server = "idle"]
    /\ UNCHANGED <<now, limiter_vars, caller_admits, server_vars, verify, meta,
                   seen>>

\* The deadline passes and nothing is done about the statement.
FetchAbandoned ==
    /\ run.pc = "fetch"
    /\ run.answer = DbTimeout
    /\ run' = Respond(run, DbTimeout)
    /\ UNCHANGED <<now, limiter_vars, caller_admits, server_vars, verify, meta,
                   seen>>

\* The deadline passes first: wait_for cancels the fetch, for which the
\* driver sends the server a cancel request, and raises TimeoutError.
FetchTimesOut ==
    /\ run.pc = "fetch"
    /\ run.answer = DbTimeout
    /\ run' = [Respond(run, DbTimeout) EXCEPT !.cancelling = TRUE]
    /\ UNCHANGED <<now, limiter_vars, caller_admits, server_vars, verify, meta,
                   seen>>

\* The server stops the statement on the cancel request.
CancelStatement ==
    /\ run.cancelling
    /\ run' = [run EXCEPT !.cancelling = FALSE, !.server = "idle"]
    /\ UNCHANGED <<now, limiter_vars, caller_admits, server_vars, verify, meta,
                   seen>>

\* execute_setup_sql: the answers to CREATE SCHEMA, SET search_path and the
\* setup SQL; the first failure ends it.
execute_setup_sql(create, path, setup) ==
    LET failed == SelectSeq(<<create, path, setup>>,
                            LAMBDA answer : answer # Executed)
    IN  IF failed = <<>> THEN [success |-> TRUE, error |-> <<>>]
        ELSE IF failed[1].kind = "error"
        THEN [success |-> FALSE, error |-> failed[1].error]
        ELSE [success |-> FALSE,
              error |-> <<"Unexpected error: ">> \o failed[1].error]

ExecuteSetupSql(create, path, setup) ==
    /\ run.pc \in {"idle", "returned"}
    /\ run.server = "idle"
    /\ run' = [NoRun EXCEPT !.pc = "returned",
                            !.op = "execute_setup_sql",
                            !.create = create,
                            !.path = path,
                            !.answer = setup,
                            !.setup = execute_setup_sql(create, path, setup)]
    /\ UNCHANGED <<now, limiter_vars, caller_admits, server_vars, verify, meta,
                   seen>>

(***************************************************************************)
(* Specifications                                                          *)
(***************************************************************************)

InitHarness ==
    /\ verify = NoVerify
    /\ meta = MetaIdle
    /\ run = NoRun
    /\ seen = NoSeen

InitServer ==
    /\ active_sessions = <<>>
    /\ minted = 0
    /\ db = <<>>
    /\ in_use = 0
    /\ tasks = [i \in Slots |-> IdleTask]
    /\ last_sql = NoStatement
    /\ reply = NoReply
    /\ gc = GcIdle

\* lifespan: create_pool at startup may fail, and the app starts without.
Init ==
    /\ InitLimiter
    /\ InitServer
    /\ pool \in {"open", "none"}
    /\ InitHarness

Next ==
    \/ \E i \in Slots : StartSession(i)
    \/ \E i \in Slots : StartGenerated(i)
    \/ \E i \in Slots : StartCreateSchema(i)
    \/ \E i \in Slots : StartSetup(i)
    \/ \E i \in Slots, session_id \in SessionIds, schema_name \in RequestNames,
          query \in UserQueries : CheckAnswer(i, session_id, schema_name, query)
    \/ \E i \in Slots : CheckUserQuery(i)
    \/ \E i \in Slots : CheckExpectedQuery(i)
    \/ \E i \in Slots, session_id \in SessionIds : GetHint(i, session_id)
    \/ \E i \in Slots, session_id \in SessionIds : EndSession(i, session_id)
    \/ \E i \in Slots : EndDropSchema(i)
    \/ \E i \in Slots, query \in FreeQueries,
          schema_name \in {NoSchema, InjectionName} :
          ExecuteSql(i, query, schema_name)
    \/ \E i \in Slots : ExecuteSqlQuery(i)

Spec == Init /\ [][Next]_vars

\* The rate limiter alone, asked by callers that hold stable keys.
NextLimiter ==
    \/ Tick
    \/ \E key \in LimiterKeys : Admit(key)

SpecLimiter == Init /\ [][NextLimiter]_vars

\* A burst of start_session requests from one caller inside one window.
BurstStart(i) == StartSessionWithin(i, MaxBurst)

NextBurst ==
    \/ \E i \in Slots : BurstStart(i)
    \/ \E i \in Slots : StartGenerated(i)
    \/ \E i \in Slots : StartCreateSchema(i)
    \/ \E i \in Slots : StartSetup(i)

SpecBurst == Init /\ [][NextBurst]_vars

\* The comparison alone, over every pair of results within the bounds.
InitVerify ==
    /\ InitLimiter
    /\ InitServer
    /\ pool = "open"
    /\ verify \in { Compared(u, e) : u \in UserResults, e \in ExpectedResults }
    /\ meta = MetaIdle
    /\ run = NoRun
    /\ seen = NoSeen

NextVerify ==
    \/ \E which \in {"user", "expected"}, k \in 1..MaxRows : PermuteRows(which, k)
    \/ \E which \in {"user", "expected"}, k \in 1..MaxRows : DuplicateRow(which, k)
    \/ \E which \in {"user", "expected"}, c \in 1..1 : ChangeCase(which, c)

SpecVerify == InitVerify /\ [][NextVerify]_vars

\* The server, taking one request at a time, and the heuristic sweep, run
\* as a separate process against the same database.
SweepSlots == {1}
SweepQueries == {"select_all", "drop_table"}

NextSweep ==
    \/ \E i \in SweepSlots : StartSession(i)
    \/ \E i \in SweepSlots : StartGenerated(i)
    \/ \E i \in SweepSlots : StartCreateSchema(i)
    \/ \E i \in SweepSlots : StartSetup(i)
    \/ \E i \in SweepSlots, session_id \in SessionIds,
          schema_name \in GeneratedNames, query \in SweepQueries :
          CheckAnswer(i, session_id, schema_name, query)
    \/ \E i \in SweepSlots : CheckUserQuery(i)
    \/ \E i \in SweepSlots : CheckExpectedQuery(i)
    \/ \E i \in SweepSlots, session_id \in SessionIds : GetHint(i, session_id)
    \/ \E i \in SweepSlots, session_id \in SessionIds : EndSession(i, session_id)
    \/ \E i \in SweepSlots : EndDropSchema(i)
    \/ GcStart
    \/ GcAge
    \/ GcCount
    \/ GcDrop
    \/ GcFinish

SpecSweep == Init /\ [][NextSweep]_vars

\* The metadata sweep alone, over every table and database within the
\* bounds: rows for schemas that exist and for schemas that are gone.
MetaTimes == 0..1
MetaContents == {"ready", "empty"}

Partial(keys, values) == UNION { [ks -> values] : ks \in SUBSET keys }

InitMeta ==
    /\ InitLimiter
    /\ active_sessions = <<>>
    /\ minted = 0
    /\ in_use = 0
    /\ tasks = [i \in Slots |-> IdleTask]
    /\ last_sql = NoStatement
    /\ reply = NoReply
    /\ gc = GcIdle
    /\ pool = "open"
    /\ verify = NoVerify
    /\ run = NoRun
    /\ seen = NoSeen
    /\ \E rows \in Partial(GeneratedNames, MetaTimes),
          schemas \in Partial(GeneratedNames, MetaContents) :
          /\ meta = [MetaIdle EXCEPT !.rows = rows]
          /\ db = schemas

NextMeta ==
    \/ MetaTick
    \/ MetaStart
    \/ MetaDrop
    \/ MetaDelete
    \/ MetaOrphans
    \/ MetaFinish

SpecMeta == InitMeta /\ [][NextMeta]_vars

\* The process restarts: the module globals start empty again, requests in
\* flight are gone with their connections; the database is as it was.
Restart ==
    /\ active_sessions' = <<>>
    /\ rate_limits' = <<>>
    /\ tasks' = [i \in Slots |-> IdleTask]
    /\ in_use' = 0
    /\ reply' = NoReply
    /\ Quiet
    /\ UNCHANGED <<now, last_admit, recent_admits, caller_admits, minted, db,
                   pool, gc, harness>>

\* The server, taking one request at a time and restarting now and then,
\* and the metadata sweep run again and again beside it.  The table starts
\* with whatever rows earlier runs left in it.
InitCleanup ==
    /\ InitLimiter
    /\ InitServer
    /\ pool = "open"
    /\ verify = NoVerify
    /\ run = NoRun
    /\ seen = NoSeen
    /\ \E rows \in Partial(GeneratedNames, MetaTimes) :
          meta = [MetaIdle EXCEPT !.rows = rows]

MetaSweep ==
    \/ MetaStart
    \/ MetaDrop
    \/ MetaDelete
    \/ MetaOrphans
    \/ MetaFinish

\* A request in flight goes on.
RequestStep ==
    \E i \in SweepSlots :
        \/ StartGenerated(i)
        \/ StartCreateSchema(i)
        \/ StartSetup(i)
        \/ EndDropSchema(i)

NextCleanup ==
    \/ \E i \in SweepSlots : StartSession(i)
    \/ \E i \in SweepSlots, session_id \in SessionIds : EndSession(i, session_id)
    \/ RequestStep
    \/ Restart
    \/ MetaTick
    \/ MetaSweep

SpecCleanup ==
    /\ InitCleanup
    /\ [][NextCleanup]_vars
    /\ WF_vars(RequestStep)
    /\ SF_vars(MetaTick)
    /\ WF_vars(MetaSweep)

\* get_hint alone, on sessions whose questions carry 0..MaxHints hints.
HintIds == 1..HintSessions

HintName(session_id) ==
    SchemaPrefix \o <<"0", "0", "0", "0", "0", "0", "0", ToString(session_id)>>

HintQuestion(n) == [GoodQuestion EXCEPT !.hints = [k \in 1..n |-> ToString(k)]]

InitHints ==
    /\ InitLimiter
    /\ InitHarness
    /\ pool = "open"
    /\ in_use = 0
    /\ tasks = [i \in Slots |-> IdleTask]
    /\ last_sql = NoStatement
    /\ reply = NoReply
    /\ gc = GcIdle
    /\ minted = HintSessions
    /\ db = [name \in { HintName(session_id) : session_id \in HintIds } |-> "ready"]
    /\ \E n \in [HintIds -> 0..MaxHints] :
          active_sessions =
             [session_id \in HintIds |->
                 [schema_name |-> HintName(session_id),
                  question |-> HintQuestion(n[session_id]),
                  hints_revealed |-> 0,
                  created_at |-> 0]]

NextHints ==
    \E i \in Slots, session_id \in 1..(HintSessions + 1) : GetHint(i, session_id)

SpecHints == InitHints /\ [][NextHints]_vars

\* run_free_query alone: every first word of the denylist as it stands and
\* in another letter case, with and without leading whitespace, with no
\* schema name, an empty one and a generated one.
FirstWords ==
    blocked_keywords
    \cup {"drop", "Truncate", "delete", "Update", "insert", "alter", "cREATE",
          "grant", "Revoke"}
    \cup {"SELECT", "select", "WITH"}

FreeTexts ==
    { SqlText(space, word, target) :
        space \in BOOLEAN, word \in FirstWords,
        target \in {NoName, LookalikeName} }

FreeNames == {NoSchema, EmptyName} \cup GeneratedNames

NextFree ==
    \/ \E i \in Slots, query \in FreeTexts, schema_name \in FreeNames :
          ExecuteSql(i, query, schema_name)
    \/ \E i \in Slots : ExecuteSqlQuery(i)

SpecFree == Init /\ [][NextFree]_vars

\* uuid4().hex[:7]: one character short.
generate_schema_name_short(hex) ==
    SchemaPrefix \o SubSeq(hex, 1, SuffixLen - 1)

\* generate_schema_name: f"practice_{uuid4().hex[:8]}", for the hex digits
\* of the uuid.
generate_schema_name(hex) ==
    SchemaPrefix \o SubSeq(hex, 1, SuffixLen)

\* The hex digits of a uuid, as far as the name reads them and one further.
HexDigits == {"0", "f"}
UuidHex == [1..(SuffixLen + 1) -> HexDigits]

\* Characters a request can put into a name: whitespace, a separator,
\* capitals, punctuation, a letter of the prefix, a hex digit.
RequestChars == {" ", "\t", ";", "A", "F", "g", "-", "'", "p", "_", "7"}

\* Names a request can carry: a generated name with one character replaced,
\* one inserted or appended, or its last one dropped.
EditedNames(name) ==
    { [name EXCEPT ![k] = c] : k \in DOMAIN name, c \in RequestChars }
    \cup { SubSeq(name, 1, k) \o <<c>> \o SubSeq(name, k + 1, Len(name)) :
             k \in 0..Len(name), c \in RequestChars }
    \cup { SubSeq(name, 1, Len(name) - 1) }

\* A schema name is generated and validated.
GenerateName(hex) ==
    /\ seen' = [seen EXCEPT !.origin = "generated",
                            !.name = generate_schema_name(hex),
                            !.valid = validate_schema_name(generate_schema_name(hex))]
    /\ UNCHANGED <<now, limiter_vars, caller_admits, server_vars, verify,
                   meta, run>>

\* A name of a request is validated.
ValidateName(name) ==
    /\ seen' = [seen EXCEPT !.origin = "request",
                            !.name = name,
                            !.valid = validate_schema_name(name)]
    /\ UNCHANGED <<now, limiter_vars, caller_admits, server_vars, verify,
                   meta, run>>

NextNames ==
    \/ \E hex \in UuidHex : GenerateName(hex)
    \/ \E generated \in GeneratedNames :
          \E name \in EditedNames(generated) : ValidateName(name)

SpecNames == Init /\ [][NextNames]_vars

\* start_session requests in flight while other callers ask the limiter
\* about the key the first request uses.
NextAdmits ==
    \/ Tick
    \/ Admit(1)
    \/ \E i \in SweepSlots : StartSession(i)
    \/ \E i \in SweepSlots : StartGenerated(i)
    \/ \E i \in SweepSlots : StartCreateSchema(i)
    \/ \E i \in SweepSlots : StartSetup(i)

SpecAdmits == Init /\ [][NextAdmits]_vars

\* Any number of get_hint calls, for the same and for different sessions,
\* in every order.
NextHintCalls ==
    \E i \in Slots, session_id \in 1..(HintSessions + 1) :
        GetHintCounted(i, session_id)

SpecHintCalls == InitHints /\ [][NextHintCalls]_vars

\* What the database can answer to a query over table t: no result set,
\* or records under one column, none of them included.
ColumnAnswers ==
    { Records(<<>>, <<>>) }
    \cup { Records(<<c>>, [r \in 1..k |-> Row(ToString(r))]) :
             c \in ColumnNames, k \in 0..MaxRows }

\* check_answer from the answers to its two queries, both without error.
CheckQueries(user_answer, expected_answer) ==
    /\ verify' = Compared(ExecuteResult(user_answer, max_query_rows),
                          ExecuteResult(expected_answer, max_query_rows))
    /\ seen' = [seen EXCEPT !.user_answer = user_answer,
                            !.expected_answer = expected_answer]
    /\ UNCHANGED <<now, limiter_vars, caller_admits, server_vars, meta, run>>

NextColumns ==
    \E user_answer \in ColumnAnswers, expected_answer \in ColumnAnswers :
        CheckQueries(user_answer, expected_answer)

SpecColumns == Init /\ [][NextColumns]_vars

\* /practice/generate alone, over every run of answers of the backing model.
LlmAttempts == [1..(max_retries + 1) -> LlmOutcomes]

NextGenerate ==
    \/ \E i \in Slots : StartSession(i)
    \/ \E i \in Slots, attempts \in LlmAttempts : StartGenerateQuestion(i, attempts)
    \/ \E i \in Slots : StartCreateSchema(i)
    \/ \E i \in Slots : StartSetup(i)

SpecGenerate == Init /\ [][NextGenerate]_vars

\* The executor alone: every call, limit and answer within the bounds.
InitExecute ==
    /\ InitLimiter
    /\ InitServer
    /\ pool = "open"
    /\ InitHarness

NextExecute ==
    \/ \E schema_name \in {NoSchema, EmptyName} \cup GeneratedNames,
          limit \in LimitInputs, path \in PathAnswers, answer \in FetchAnswers :
          ExecuteQuery(schema_name, limit, path, answer)
    \/ SetSearchPath
    \/ FetchReturns
    \/ FetchTimesOut
    \/ CancelStatement
    \/ \E create \in PathAnswers, path \in PathAnswers, setup \in PathAnswers :
          ExecuteSetupSql(create, path, setup)

SpecExecute == InitExecute /\ [][NextExecute]_vars

\* The same, with the driver's cancel request, a task of the event loop,
\* reaching the server.
SpecTimeout == InitExecute /\ [][NextExecute]_vars /\ WF_vars(CancelStatement)

(***************************************************************************)
(* Properties                                                              *)
(***************************************************************************)
\* C1: every schema name interpolated into a statement (SET search_path,
\* CREATE SCHEMA, DROP SCHEMA) has passed the identifier validator, so it
\* is a name the validator accepts.
InterpolatedNamesValid ==
    last_sql # NoStatement => validate_schema_name(last_sql.name)

CheckEnded == reply'.op = "check_answer"

\* C2: check_answer runs its queries only for a valid schema name, a stored
\* session and a schema name equal to the session's; otherwise it fails with
\* 400 (invalid name), 404 (no session) or 400 (mismatch), in that order,
\* having executed nothing and acquired no connection.
CheckAnswerGuards ==
    [][/\ (CheckEnded /\ ~reply'.acquired) =>
             /\ reply'.executed = {}
             /\ IF ~validate_schema_name(reply'.schema_name)
                THEN reply'.response =
                         HTTPException(400, "Invalid schema name format")
                ELSE IF reply'.session_id \notin DOMAIN active_sessions
                THEN reply'.response = HTTPException(404, "Session not found")
                ELSE IF active_sessions[reply'.session_id].schema_name
                            # reply'.schema_name
                THEN reply'.response = HTTPException(400, "Schema mismatch")
                ELSE reply'.response.status \notin {200, 400, 404}
       /\ (CheckEnded /\ reply'.acquired) =>
             reply'.response.status \notin {400, 404}
       /\ \A i \in Slots :
             (tasks[i].pc = "idle" /\ tasks'[i].op = "check_answer") =>
                /\ tasks'[i].acquired
                /\ tasks'[i].executed = {}
                /\ validate_schema_name(tasks'[i].schema_name)
                /\ tasks'[i].session_id \in DOMAIN active_sessions
                /\ active_sessions[tasks'[i].session_id].schema_name
                       = tasks'[i].schema_name
       /\ \A i \in Slots :
             (tasks'[i].op = "check_answer" /\ tasks'[i].executed # {}) =>
                tasks[i].op = "check_answer"
       /\ (CheckEnded /\ reply'.executed # {}) =>
             \E i \in Slots : tasks[i].op = "check_answer" /\ tasks[i].acquired
      ]_vars

\* A check_answer call got past the first two checks and failed the third.
MismatchSeen ==
    /\ reply.op = "check_answer"
    /\ reply.response = HTTPException(400, "Schema mismatch")

StartFailed(r) == r.op = "start_session" /\ r.response.status # 200

\* C3: a session enters the store only in the step in which its own
\* start_session call completed provisioning, with its schema set up; a
\* start_session that fails leaves the store unchanged, and check_answer and
\* get_hint for an id that is not stored return session-not-found.
SessionsAreProvisioned ==
    [][/\ \A sid \in DOMAIN active_sessions' \ DOMAIN active_sessions :
             /\ reply'.op = "start_session"
             /\ reply'.session_id = sid
             /\ reply'.response.status = 200
             /\ active_sessions'[sid].schema_name = reply'.schema_name
             /\ Contents(db', reply'.schema_name) = "ready"
             /\ \E i \in Slots : /\ tasks[i].pc = "setup_sql"
                                  /\ tasks[i].session_id = sid
       /\ StartFailed(reply') =>
             /\ active_sessions' = active_sessions
             /\ reply'.session_id \notin DOMAIN active_sessions'
       /\ (/\ reply'.op = "check_answer"
           /\ validate_schema_name(reply'.schema_name)
           /\ reply'.session_id \notin DOMAIN active_sessions
           /\ ~reply'.acquired) =>
             reply'.response = HTTPException(404, "Session not found")
       /\ (/\ reply'.op = "get_hint"
           /\ reply'.session_id \notin DOMAIN active_sessions) =>
             reply'.response = HTTPException(404, "Session not found")
      ]_vars

\* A start_session call failed at setup and its id is not stored.
SetupFailureSeen ==
    /\ reply.op = "start_session"
    /\ reply.response.status = 500
    /\ reply.response.detail = "Failed to set up practice database"
    /\ reply.session_id \notin DOMAIN active_sessions

\* C4: no more than rate_limit_per_minute start_session requests of one
\* caller are admitted inside a trailing 60 s window.
StartSessionRateLimited == Len(caller_admits) <= rate_limit_per_minute

\* A step that is a call of _check_rate_limit, for this key.
AdmitStep == now' = now
AdmitKey == last_admit'.key

\* C5: for every key the admitted calls inside the trailing 60 s window
\* never exceed the capacity; a call that finds the capacity admitted inside
\* the window is rejected, and a call made more than 60 s after the oldest
\* stored admission is admitted.
LimiterNeverOverAdmits ==
    [][/\ \A key \in DOMAIN recent_admits' :
             Len(recent_admits'[key]) <= rate_limit_per_minute
       /\ (/\ AdmitStep
           /\ Len(HistoryOf(recent_admits, AdmitKey)) = rate_limit_per_minute)
          => ~last_admit'.ok
       /\ (/\ AdmitStep
           /\ WindowOf(rate_limits, AdmitKey) # <<>>
           /\ now - WindowOf(rate_limits, AdmitKey)[1] > Window)
          => last_admit'.ok
      ]_vars

\* A call was rejected with the capacity admitted inside the window.
RejectionSeen ==
    /\ ~last_admit.ok
    /\ Len(HistoryOf(recent_admits, last_admit.key)) = rate_limit_per_minute

\* What a call of _check_rate_limit does when it keeps the stamps in kept.
AdmitEffect(kept) ==
    /\ last_admit'.ok = (Len(kept) < rate_limit_per_minute)
    /\ rate_limits'[AdmitKey] =
          IF Len(kept) >= rate_limit_per_minute THEN kept
          ELSE Append(kept, now)
    /\ DOMAIN rate_limits' = DOMAIN rate_limits \cup {AdmitKey}
    /\ \A key \in DOMAIN rate_limits \ {AdmitKey} :
          rate_limits'[key] = rate_limits[key]

\* C6 as stated: a call removes the stamps older than now - 60 s, a stamp
\* exactly 60 s old still counting; then it rejects and adds nothing, or
\* admits and appends now; other keys are unchanged.
AdmitKeepsSixtySecondsOld ==
    [][AdmitStep =>
         AdmitEffect(SelectSeq(WindowOf(rate_limits, AdmitKey),
                               LAMBDA s : now - s <= Window))
      ]_vars

\* C6 amended: a call removes the stamps that are 60 s old or older; then
\* it rejects and adds nothing, or admits and appends now; other keys are
\* unchanged.
AdmitDropsSixtySecondsOld ==
    [][AdmitStep =>
         AdmitEffect(SelectSeq(WindowOf(rate_limits, AdmitKey),
                               LAMBDA s : now - s < Window))
      ]_vars

\* A call dropped a full window of old stamps and was admitted.
PruningSeen ==
    /\ last_admit.ok
    /\ last_admit.dropped = rate_limit_per_minute

\* C7: when the user's query fails in check_answer, the response is
\* correct = false with the user query's error, and the expected query is
\* not executed in that call.
UserFailureEndsCheck ==
    /\ \A i \in Slots :
          tasks[i].pc = "expected_query" => tasks[i].user_result.success
    /\ (/\ reply.op = "check_answer"
        /\ "user" \in reply.executed
        /\ ~reply.user_result.success)
       => /\ reply.response.status = 200
          /\ reply.response.body.correct = FALSE
          /\ reply.response.body.error = reply.user_result.error
          /\ "expected" \notin reply.executed

\* A check_answer call whose user query failed has returned.
UserFailureSeen ==
    /\ reply.op = "check_answer"
    /\ "user" \in reply.executed
    /\ ~reply.user_result.success

\* Two rows show the same texts.
SameText(a, b) ==
    /\ Len(a) = Len(b)
    /\ \A c \in DOMAIN a : PyStr(a[c]) = PyStr(b[c])

\* The texts of the rows of a that no row of b shows.
OnlyIn(a, b) ==
    { [c \in DOMAIN a[r] |-> PyStr(a[r][c])] :
        r \in { r \in DOMAIN a : ~\E q \in DOMAIN b : SameText(a[r], b[q]) } }

\* C8: correct holds iff the lowercased column names agree position by
\* position and the two results show the same set of row texts; row_diff
\* counts the row texts that only one of them shows, so correct implies
\* row_diff = 0.
VerdictIsSetEquality ==
    LET u == verify.user
        e == verify.expected
        v == verify.verdict
        same_columns ==
            /\ Len(u.columns) = Len(e.columns)
            /\ \A c \in DOMAIN u.columns :
                  Lower(u.columns[c]) = Lower(e.columns[c])
        same_rows == OnlyIn(u.rows, e.rows) = {} /\ OnlyIn(e.rows, u.rows) = {}
    IN  /\ v.correct <=> (same_columns /\ same_rows)
        /\ v.row_diff = Cardinality(OnlyIn(u.rows, e.rows))
                         + Cardinality(OnlyIn(e.rows, u.rows))
        /\ v.correct => v.row_diff = 0

\* A verdict of correct on two results that are not the same result.
CorrectOnDifferentResults ==
    /\ verify.verdict.correct
    /\ verify.user # verify.expected

OneTwoThree == <<<<IntV("1")>>, <<IntV("2")>>, <<IntV("3")>>>>

\* C9: permuting rows, repeating a row already present and changing the
\* letter case of a column name leave correct and row_diff as they were;
\* against expected rows 1, 2, 3 the same rows in any order are correct with
\* row_diff 0, and rows 2, 3 are incorrect with row_diff 1.
VerdictIgnoresOrderCopiesCase ==
    [][/\ verify'.verdict.correct = verify.verdict.correct
       /\ verify'.verdict.row_diff = verify.verdict.row_diff
       /\ (/\ verify'.expected.rows = OneTwoThree
           /\ verify'.user.columns = verify'.expected.columns
           /\ Len(verify'.user.rows) = 3
           /\ { verify'.user.rows[r] : r \in 1..3 }
                 = { OneTwoThree[r] : r \in 1..3 })
          => verify'.verdict.correct /\ verify'.verdict.row_diff = 0
       /\ (/\ verify'.expected.rows = OneTwoThree
           /\ verify'.user.columns = verify'.expected.columns
           /\ verify'.user.rows = <<<<IntV("2")>>, <<IntV("3")>>>>)
          => ~verify'.verdict.correct /\ verify'.verdict.row_diff = 1
      ]_vars

\* The expected rows 1, 2, 3 have come back in another order and under a
\* column name in the other letter case, and the verdict is still correct.
ReorderedSeen ==
    /\ verify.expected.columns = <<"X">>
    /\ Len(verify.expected.rows) = 3
    /\ verify.expected.rows # OneTwoThree
    /\ { verify.expected.rows[r] : r \in 1..3 } = { OneTwoThree[r] : r \in 1..3 }
    /\ verify.verdict.correct
    /\ verify.verdict.row_diff = 0

\* Every response check_answer gives for a failed user query, whatever the
\* schema holds.
UserErrorResponses ==
    { Ok(UserError(ExecuteResult(Fetch(contents, query), max_query_rows))) :
        contents \in {"absent", "empty", "ready", "altered"},
        query \in UserQueries }

\* C10: the response to a failed expected query differs from every response
\* to a failed user query.
ExpectedFailureDistinct ==
    (/\ reply.op = "check_answer"
     /\ "expected" \in reply.executed
     /\ reply.response.body.error # <<>>)
    => reply.response \notin UserErrorResponses

\* C11: a get_hint call on a stored session sets hints_revealed to
\* min(previous + 1, n) for the n hints of its question and returns the first
\* hints_revealed hints with revealed_count = hints_revealed; the counter
\* stays within 0..n and never decreases, the question is unchanged, so the
\* returned lists are prefixes of one list, and at the cap the full list is
\* returned and nothing changes.
HintsRevealedInOrder ==
    [][\A sid \in DOMAIN active_sessions \cap DOMAIN active_sessions' :
         LET before == active_sessions[sid]
             after == active_sessions'[sid]
             all_hints == before.question.hints
             n == Len(all_hints)
         IN  /\ after.question = before.question
             /\ after.hints_revealed >= before.hints_revealed
             /\ after.hints_revealed \in 0..n
             /\ (reply'.op = "get_hint" /\ reply'.session_id = sid) =>
                   /\ after.hints_revealed =
                         IF before.hints_revealed + 1 <= n
                         THEN before.hints_revealed + 1 ELSE n
                   /\ reply'.response.status = 200
                   /\ reply'.response.body.revealed_count = after.hints_revealed
                   /\ Len(reply'.response.body.hints) = after.hints_revealed
                   /\ \A h \in 1..after.hints_revealed :
                         reply'.response.body.hints[h] = all_hints[h]
                   /\ before.hints_revealed = n =>
                         /\ after = before
                         /\ reply'.response.body.hints = all_hints
      ]_vars

\* A get_hint call returned all three hints of a question that has three.
AllThreeHintsSeen ==
    /\ reply.op = "get_hint"
    /\ reply.response.status = 200
    /\ reply.response.body.revealed_count = 3
    /\ reply.session_id \in DOMAIN active_sessions
    /\ Len(active_sessions[reply.session_id].question.hints) = 3

\* The id was minted, is not stored, and no start_session call holds it.
DeadId(sid, store, minted_ids, in_flight) ==
    /\ sid <= minted_ids
    /\ sid \notin DOMAIN store
    /\ \A i \in Slots : ~(in_flight[i].op = "start_session"
                           /\ in_flight[i].session_id = sid)

\* C12: an end_session call that found its session ends with the session
\* removed and the response "cleaned", whether the drop removed the schema,
\* found none or failed; the id never comes back, and end_session,
\* check_answer and get_hint for an id that is not stored answer 404.
EndSessionAlwaysRemoves ==
    [][/\ (reply'.op = "cleanup_session" /\ reply'.acquired) =>
             /\ reply'.session_id \in DOMAIN active_sessions
             /\ reply'.response = Ok([status |-> "cleaned",
                                     schema_name |-> reply'.schema_name])
             /\ DeadId(reply'.session_id, active_sessions', minted', tasks')
       /\ \A i \in Slots :
             (tasks[i].pc = "idle" /\ tasks'[i].op = "cleanup_session") =>
                tasks'[i].session_id \in DOMAIN active_sessions
       /\ \A i \in Slots :
             tasks[i].pc = "drop_schema" =>
                \/ tasks'[i] = tasks[i]
                \/ reply' = Done(tasks[i], reply'.response)
       /\ \A sid \in SessionIds :
             DeadId(sid, active_sessions, minted, tasks) =>
                DeadId(sid, active_sessions', minted', tasks')
       /\ (/\ reply'.op \in {"cleanup_session", "check_answer", "get_hint"}
           /\ ~reply'.acquired
           /\ reply'.session_id \notin DOMAIN active_sessions
           /\ reply'.op = "check_answer" =>
                 validate_schema_name(reply'.schema_name))
          => reply'.response = HTTPException(404, "Session not found")
      ]_vars

\* end_session reported success although the drop left the schema there.
CleanedDespiteFailedDrop ==
    /\ reply.op = "cleanup_session"
    /\ reply.response.status = 200
    /\ Exists(db, reply.schema_name)

\* The session is stored and its schema is not in the database.
Orphaned(sid) ==
    /\ sid \in DOMAIN active_sessions
    /\ ~Exists(db, active_sessions[sid].schema_name)

\* C13: once the sweep has dropped the schema of a stored session, a
\* check_answer, get_hint or end_session call for the session answers 404:
\* it runs no query, gives no verdict, reveals no hint.
OrphanedSessionIsNotFound ==
    [][/\ (/\ reply'.op \in {"check_answer", "get_hint", "cleanup_session"}
           /\ Orphaned(reply'.session_id))
          => reply'.response = HTTPException(404, "Session not found")
       /\ \A i \in Slots :
             (/\ tasks[i].pc = "idle"
              /\ tasks'[i].op \in {"check_answer", "cleanup_session"})
             => ~Orphaned(tasks'[i].session_id)
      ]_vars

\* C15: the heuristic sweep drops a schema that holds a table only when
\* the age it has for the schema is known and greater than max_age_hours.
SweepSparesPopulatedSchemas ==
    [][(/\ gc.pc = "drop"
        /\ gc'.pc # "drop"
        /\ HasTables(Contents(db, gc.schema_name)))
       => /\ gc.oldest_table.kind = "age"
          /\ gc.oldest_table.hours > max_age_hours
      ]_vars

\* The names in a list.
Range(list) == { list[k] : k \in DOMAIN list }

\* C14: when a metadata sweep returns, every schema whose row was older
\* than the cutoff is gone, its row deleted and its name in the returned
\* list; every other schema is as it was, with its row if it had one; no row
\* is left for a schema that does not exist; and a sweep that found no row
\* older than the cutoff returns the empty list and leaves the database as
\* it was.
MetaSweepDropsTheOld ==
    [][(meta.pc = "close" /\ meta'.pc = "idle") =>
         LET start == meta.at_start
             old == { name \in DOMAIN start.rows :
                         start.rows[name] < meta.clock - max_age_hours }
         IN  /\ Range(meta'.returned) = old
             /\ Len(meta'.returned) = Cardinality(old)
             /\ \A name \in old :
                   ~Exists(db', name) /\ name \notin DOMAIN meta'.rows
             /\ \A name \in DOMAIN start.db \ old :
                   /\ Contents(db', name) = start.db[name]
                   /\ name \in DOMAIN start.rows =>
                         /\ name \in DOMAIN meta'.rows
                         /\ meta'.rows[name] = start.rows[name]
             /\ \A name \in DOMAIN meta'.rows :
                   Exists(db', name) /\ name \in DOMAIN start.rows
             /\ old = {} => meta'.returned = <<>> /\ db' = start.db
      ]_vars

\* A sweep returned one schema and kept the row that was exactly as old as
\* the cutoff.
OldDroppedBoundaryKept ==
    /\ meta.pc = "idle"
    /\ Len(meta.returned) = 1
    /\ \E name \in DOMAIN meta.rows : meta.rows[name] = meta.cutoff

\* C16: a schema that start_session has created is dropped in the end, by
\* end_session or by the metadata sweep that keeps being run.
CreatedSchemasAreDropped ==
    \A name \in GeneratedNames :
        (\E i \in Slots : /\ tasks[i].pc = "setup_sql"
                          /\ tasks[i].schema_name = name)
        ~> ~Exists(db, name)

Returned(op) == run.pc = "returned" /\ run.op = op

\* C17: a successful execute_query with row limit L over k records returns
\* the first min(k, L) of them, reports row_count = k and sets truncated
\* exactly when k > L; for k = 0 it returns success with no columns, no
\* rows, row_count 0 and truncated false.
ExecuteTruncatesToLimit ==
    (Returned("execute_query") /\ run.result.success) =>
        LET k == Len(run.answer.records)
            L == EffectiveLimit(run.limit)
        IN  /\ run.answer.kind = "records"
            /\ Len(run.result.rows) = Min(k, L)
            /\ \A r \in 1..Min(k, L) : run.result.rows[r] = run.answer.records[r]
            /\ run.result.row_count = k
            /\ run.result.truncated <=> k > L
            /\ k = 0 => run.result = Success(<<>>, <<>>, 0, FALSE)

TruncatedSeen ==
    /\ Returned("execute_query")
    /\ run.result.success
    /\ run.result.truncated
    /\ run.result.row_count = MaxRows
    /\ Len(run.result.rows) = MaxLimit

\* The statement of the call that the database answered with an error.
FailedAnswer(call) ==
    IF call.path # Executed THEN call.path ELSE call.answer

\* C18: execute_query ends every call by returning a result, and when the
\* database reports an error, for SET search_path or for the query, the
\* result is success = false with the non-empty message, no columns, no
\* rows and row_count 0; execute_setup_sql returns (false, message) when
\* one of its statements fails.
ExecuteFailureIsReturned ==
    /\ Returned("execute_query") => run.result # NoResult
    /\ (Returned("execute_query") /\ FailedAnswer(run).kind = "error") =>
          /\ ~run.result.success
          /\ run.result.error = FailedAnswer(run).error
          /\ run.result.error # <<>>
          /\ run.result.columns = <<>>
          /\ run.result.rows = <<>>
          /\ run.result.row_count = 0
    /\ Returned("execute_setup_sql") =>
          /\ run.setup # NoSetupResult
          /\ run.setup.success <=>
                (run.create = Executed /\ run.path = Executed
                                       /\ run.answer = Executed)
          /\ ~run.setup.success => run.setup.error # <<>>

SearchPathFailureSeen ==
    /\ Returned("execute_query")
    /\ run.path.kind = "error"
    /\ run.answer = SomeRecords(MaxRows)
    /\ run.result = Failure(run.path.error)

\* The call returned after its query had run past the deadline.
TimedOutCall ==
    /\ Returned("execute_query")
    /\ run.path = Executed
    /\ run.answer = DbTimeout

FreeQueryDenylistHolds ==
    \A i \in Slots :
        (/\ tasks[i].op = "execute_sql"
         /\ tasks[i].pc = "free_query"
         /\ ~Truthy(tasks[i].schema_name)) =>
            \A keyword \in blocked_keywords : ~StartsWith(tasks[i].query, keyword)

AllAre(attempts, outcome) ==
    /\ attempts # <<>>
    /\ \A k \in DOMAIN attempts : attempts[k] = outcome

\* C21: start_session answers 500 when the generator's answers were badly
\* shaped and 503 when the backing model was unreachable on every attempt,
\* and in both cases creates no schema and stores no session.
GenerationFailureStatuses ==
    (reply.op = "start_session" /\ ~reply.acquired) =>
        /\ AllAre(seen.attempts, "bad_shape") =>
              /\ reply.response.status = 500
              /\ db = <<>> /\ active_sessions = <<>>
        /\ AllAre(seen.attempts, "unreachable") =>
              /\ reply.response.status = 503
              /\ db = <<>> /\ active_sessions = <<>>

\* The characters of valid names.
Alphabet == HexChars \cup { SchemaPrefix[k] : k \in DOMAIN SchemaPrefix }

\* C22: every name generate_schema_name produces validates; a name that
\* holds whitespace, a semicolon or any character outside the alphabet, or
\* whose length is not that of the prefix plus 8, or whose suffix holds a
\* character that is no lowercase hex digit, does not; and a name that
\* validates is the prefix followed by lowercase hex digits.
ValidNamesAreGeneratedNames ==
    /\ seen.origin = "generated" => seen.valid
    /\ (\E k \in DOMAIN seen.name : seen.name[k] \notin Alphabet) => ~seen.valid
    /\ (seen.origin # "none" /\ Len(seen.name) # Len(SchemaPrefix) + 8) =>
          ~seen.valid
    /\ seen.valid =>
          /\ \A k \in DOMAIN SchemaPrefix : seen.name[k] = SchemaPrefix[k]
          /\ \A k \in DOMAIN seen.name \ DOMAIN SchemaPrefix :
                seen.name[k] \in HexChars

GeneratedNameValidated ==
    /\ seen.origin = "generated"
    /\ seen.valid
    /\ seen.name[Len(seen.name)] = "f"

\* C23: with requests in flight and other calls for the same key between
\* their steps, the timestamps stored for a key that lie in the 60 s window
\* are exactly the admitted calls of that window, in order, and never more
\* than the capacity: none is lost and none is admitted beyond it.
AdmitsAreAtomic ==
    \A key \in DOMAIN rate_limits \cup DOMAIN recent_admits :
        /\ SelectSeq(WindowOf(rate_limits, key), LAMBDA s : InWindow(s, now))
              = HistoryOf(recent_admits, key)
        /\ Len(HistoryOf(recent_admits, key)) <= rate_limit_per_minute

FullWindowWhileInFlight ==
    \E i \in SweepSlots :
        /\ tasks[i].op = "start_session"
        /\ tasks[i].pc = "setup_sql"
        /\ Len(HistoryOf(recent_admits, tasks[i].session_id)) = rate_limit_per_minute
        /\ last_admit.key = tasks[i].session_id
        /\ ~last_admit.ok

\* C24: k get_hint calls on a session with n hints, scheduled in any order
\* among calls for other sessions, leave hints_revealed = min(k, n), and
\* the k-th of them returns the count min(k, n): the counts are consecutive
\* up to the cap, no update is lost and no hint is revealed twice as new.
HintCallsAreSerialized ==
    /\ \A sid \in DOMAIN active_sessions :
          active_sessions[sid].hints_revealed =
              Min(Len(HintCalls(sid)), Len(active_sessions[sid].question.hints))
    /\ (reply.op = "get_hint" /\ reply.response.status = 200) =>
          reply.response.body.revealed_count =
              Min(Len(HintCalls(reply.session_id)),
                  Len(active_sessions[reply.session_id].question.hints))

SecondCallRevealsSecondHint ==
    /\ reply.op = "get_hint"
    /\ reply.response.status = 200
    /\ Len(HintCalls(reply.session_id)) = 2
    /\ reply.response.body.revealed_count = 2
    /\ \E sid \in DOMAIN active_sessions :
          sid # reply.session_id /\ Len(HintCalls(sid)) = 1

\* C25: once no call has been made for a key for 60 s, nothing is stored
\* for it: 60 s after the last call of all, every stored sequence is empty.
IdleKeysAreForgotten ==
    (last_admit # NoCall /\ now >= last_admit.at + Window) =>
        \A key \in DOMAIN rate_limits : rate_limits[key] = <<>>

\* C26: check_answer answers correct = true only if the columns the user's
\* query produces are, letter case aside and in order, the columns the
\* expected query produces, zero rows or no result set included.
CorrectNeedsSameColumns ==
    verify.verdict.correct =>
        LowerAll(seen.user_answer.columns) = LowerAll(seen.expected_answer.columns)

\* The requests in flight that hold a connection.
Holders == { i \in Slots : tasks[i].acquired }

NextStore ==
    \/ \E i \in Slots, session_id \in 1..(HintSessions + 1),
          schema_name \in { HintName(id) : id \in HintIds },
          query \in SweepQueries :
          CheckAnswer(i, session_id, schema_name, query)
    \/ \E i \in Slots : CheckUserQuery(i)
    \/ \E i \in Slots : CheckExpectedQuery(i)
    \/ \E i \in Slots, session_id \in 1..(HintSessions + 1) : GetHint(i, session_id)
    \/ \E i \in Slots, session_id \in 1..(HintSessions + 1) : EndSession(i, session_id)
    \/ \E i \in Slots : EndDropSchema(i)

\* The store at the start: every session's question has one hint.
InitStore ==
    /\ InitHints
    /\ \A session_id \in HintIds :
          Len(active_sessions[session_id].question.hints) = 1

SpecStore == InitStore /\ [][NextStore]_vars

\* The step ends a call of op for session_id.
Served(op, session_id) ==
    /\ reply'.op = op
    /\ reply'.session_id = session_id

\* The step is one of a check_answer call: its entry, or a later step of it.
CheckAnswerStep ==
    \/ reply'.op = "check_answer"
    \/ \E i \in Slots : tasks'[i].op = "check_answer" /\ tasks'[i] # tasks[i]

\* C28: in every step a stored session keeps its namespace, question and
\* creation time; its hints_revealed changes only in a get_hint call for it;
\* it leaves the store only in an end_session call for it; and no step of
\* check_answer changes the store.
SessionsChangeOnlyByTheirCalls ==
    [][/\ \A session_id \in DOMAIN active_sessions :
             IF session_id \in DOMAIN active_sessions'
             THEN LET old == active_sessions[session_id]
                      new == active_sessions'[session_id]
                  IN  /\ new.schema_name = old.schema_name
                      /\ new.question = old.question
                      /\ new.created_at = old.created_at
                      /\ new.hints_revealed # old.hints_revealed
                            => Served("get_hint", session_id)
             ELSE Served("cleanup_session", session_id)
       /\ CheckAnswerStep => UNCHANGED active_sessions]_vars

OtherSessionKeptAfterEnd ==
    /\ reply.op = "cleanup_session"
    /\ reply.response.status = 200
    /\ \E session_id \in DOMAIN active_sessions :
          /\ session_id # reply.session_id
          /\ active_sessions[session_id].hints_revealed > 0

\* start_session once more than MaxSessions times, so that a later session
\* can be given the name an earlier one has.
StartSessionAgain(i) == StartSessionWithin(i, MaxSessions + 1)

\* start_session and check_answer, one request at a time, nothing removed.
NextCollide ==
    \/ \E i \in SweepSlots : StartSessionAgain(i)
    \/ \E i \in SweepSlots : StartGenerated(i)
    \/ \E i \in SweepSlots : StartCreateSchema(i)
    \/ \E i \in SweepSlots : StartSetup(i)
    \/ \E i \in SweepSlots, session_id \in 1..(MaxSessions + 1),
          schema_name \in GeneratedNames, query \in SweepQueries :
          CheckAnswer(i, session_id, schema_name, query)
    \/ \E i \in SweepSlots : CheckUserQuery(i)
    \/ \E i \in SweepSlots : CheckExpectedQuery(i)

SpecCollide == Init /\ [][NextCollide]_vars

\* C29: no two sessions of the store have the same namespace.
NamespacesAreDistinct ==
    \A a, b \in DOMAIN active_sessions :
        a # b => active_sessions[a].schema_name # active_sessions[b].schema_name

\* What the expected query of a stored session returns on database d.
ExpectedOutcome(d, session) ==
    execute_query(d, ExpectedStatement(session.question), session.schema_name)

\* C30: no step of check_answer changes what the expected query of a stored
\* session returns, so a user query gets the same verdict each time.
ReferenceOutcomeIsFixed ==
    [][CheckAnswerStep =>
          \A session_id \in DOMAIN active_sessions :
              ExpectedOutcome(db', active_sessions[session_id])
                 = ExpectedOutcome(db, active_sessions[session_id])]_vars

(***************************************************************************)
(* Two requests in flight at once on a store of HintSessions sessions      *)
(***************************************************************************)
\* One slot more than MaxTasks, so that two requests can overlap.
PairSlots == 1..(MaxTasks + 1)

InitPair ==
    /\ InitLimiter
    /\ InitHarness
    /\ pool = "open"
    /\ in_use = 0
    /\ tasks = [i \in PairSlots |-> IdleTask]
    /\ last_sql = NoStatement
    /\ reply = NoReply
    /\ gc = GcIdle
    /\ minted = HintSessions
    /\ db = [name \in { HintName(session_id) : session_id \in HintIds } |-> "ready"]
    /\ active_sessions =
          [session_id \in HintIds |->
              [schema_name |-> HintName(session_id),
               question |-> HintQuestion(1),
               hints_revealed |-> 0,
               created_at |-> 0]]

\* end_session calls that overlap, for the stored ids and one unknown id.
NextEndPair ==
    \/ \E i \in PairSlots, session_id \in 1..(HintSessions + 1) :
          EndSession(i, session_id)
    \/ \E i \in PairSlots : EndDropSchema(i)

SpecEndPair == InitPair /\ [][NextEndPair]_vars

\* C31: every end_session call ends with success, session-not-found or
\* namespace-invalid, and the session it addressed is then not in the store.
EndSessionEndsCleanly ==
    reply.op = "cleanup_session" =>
        /\ reply.response.status \in {200, 404, 400}
        /\ reply.session_id \notin DOMAIN active_sessions

\* check_answer with a query that only reads, overlapping with end_session.
NextCheckPair ==
    \/ \E i \in PairSlots, session_id \in HintIds,
          schema_name \in { HintName(id) : id \in HintIds } :
          CheckAnswer(i, session_id, schema_name, "select_all")
    \/ \E i \in PairSlots : CheckUserQuery(i)
    \/ \E i \in PairSlots : CheckExpectedQuery(i)
    \/ \E i \in PairSlots, session_id \in HintIds : EndSession(i, session_id)
    \/ \E i \in PairSlots : EndDropSchema(i)

SpecCheckPair == InitPair /\ [][NextCheckPair]_vars

\* The response says that the expected query failed.
InternalFailure(response) ==
    /\ response.status = 200
    /\ response.body.error # <<>>
    /\ response.body.error[1] = InternalPrefix

\* C32: a query of check_answer runs in a namespace that exists, and
\* check_answer never reports a failure of the expected query (here every
\* stored question's expected query succeeds on its namespace as set up).
CheckAnswerNeverSeesDroppedNamespace ==
    /\ last_sql.op = "check_answer" => Exists(db, last_sql.name)
    /\ reply.op = "check_answer" => ~InternalFailure(reply.response)

====
